---- MODULE Spec2Model ----
(***************************************************************************)
(* Retrieval-fusion and source-selection engine of the chatbot:            *)
(*   app/policy/decider.py      PolicyDecider.decide, _caution_if_stale    *)
(*   app/utils/__init__.py      safe_str, parse_iso, is_stale              *)
(*   app/retrieval/retriever.py Retriever._expand_articles_same_block      *)
(*   app/config.py              RAGConfig                                  *)
(*                                                                         *)
(* Scores are floats in [0,1] in the program; here they are integers in    *)
(* hundredths (0.78 is 78).  Python's None is the string None below.       *)
(***************************************************************************)
EXTENDS Integers, Sequences, FiniteSets, TLC

VARIABLES
    cfg,        \* the frozen RAGConfig the components were built with
    pc,         \* position of the request in flight
    question,   \* decide: question argument (a sequence of words)
    lang,       \* decide: lang argument
    faqs,       \* decide: faqs argument (score-descending list of RetrievedItem)
    arts,       \* decide: arts argument (score-descending list of RetrievedItem)
    decision,   \* decide: the Decision returned, NoDecision while there is none
    exc,        \* the exception that left the call in flight, "none" if none
    initial,    \* _expand_articles_same_block: initial argument
    raw,        \* _expand_articles_same_block: reply of the block-filtered query
    expanded,   \* _expand_articles_same_block: the list returned
    expand,     \* retrieve: expand_articles argument
    world,      \* what the embeddings API and the index service answer to the call
    queries,    \* the index queries the call has issued, in order
    rendered,   \* build_faqs / build_articles: the items enumerated for rendering
    context,    \* build_faqs / build_articles: the string returned
    messages,   \* handle_messages: messages argument
    state_in,   \* handle_messages: state argument
    selected,   \* handle_messages: the FAQ evidence put in the context
    answer,     \* handle_messages: the answer returned
    state,      \* handle_messages: the state returned
    calls,      \* handle_messages: the calls made to its collaborators, in order
    requests,   \* concurrent calls: the arguments and the world of each call
    where,      \* concurrent calls: the position of each call
    frames,     \* concurrent calls: the local variables of each call
    results     \* concurrent calls: what each call returned or raised

vars == <<cfg, pc, question, lang, faqs, arts, decision, exc, initial, raw, expanded,
          expand, world, queries, rendered, context,
          messages, state_in, selected, answer, state, calls,
          requests, where, frames, results>>

None == "None"

----------------------------------------------------------------------------
(* Bounds of the model *)

\* items that follow the top candidate in a list handed to decide
MaxTail == 1

\* length of the initial article list handed to block expansion
MaxInitial == 2

\* number of records the index returns to the block-filtered query
MaxReply == 2

\* number of matches the index returns to the FAQ query of retrieve
MaxMatches == 2

\* number of matches the index returns to the global article query of retrieve
MaxArticleMatches == 1

\* length of the lists handed to build_faqs and of the free-order lists handed
\* to build_articles
MaxContextItems == 2

\* length of the longest list of block chunks handed to build_articles
MaxBlockChunks == 16

\* the most calls of handle_messages in flight together
MaxCalls == 2

----------------------------------------------------------------------------
(* app/config.py *)

\* RAGConfig.from_env() with no environment variable set (floats in hundredths)
DefaultConfig ==
    [ top_k_articles_candidates    |-> 30,
      top_k_articles_final         |-> 8,
      top_k_articles_block_context |-> 40,
      min_score_faq_to_answer      |-> 45,
      min_score_articles_to_answer |-> 45,
      overwrite                    |-> 75,
      article_over_faq_margin      |-> 5,
      stale_days_warn              |-> 540,
      top_k_faq_candidates         |-> 25,
      top_k_faq_final              |-> 5,
      top_k_articles_within_block  |-> 40,
      namespace_faqs               |-> "wiki_faqs",
      namespace_articles           |-> "wiki_articulos",
      top_k_faqs                   |-> 5,
      max_context_chars            |-> 12000 ]

\* RAGConfig values an environment can set: the defaults, a wider margin with a
\* lower override threshold, and small list caps
Configs ==
    { DefaultConfig,
      [DefaultConfig EXCEPT !.article_over_faq_margin = 10, !.overwrite = 60],
      [DefaultConfig EXCEPT !.top_k_articles_final = 1,
                            !.top_k_articles_block_context = 2] }

\* getattr(obj, name, default)
getattr(obj, name, default) == IF name \in DOMAIN obj THEN obj[name] ELSE default

----------------------------------------------------------------------------
(* app/utils/__init__.py *)

\* A metadata timestamp as the program meets it: kind "none" (key missing,
\* None or ""), "garbled" (fromisoformat rejects it), "aware" (ISO-8601 with
\* an offset or Z) or "naive" (ISO-8601 without offset); age is
\* (now_utc() - dt).days for the two parseable kinds.
Stamp(kind, age) == [kind |-> kind, age |-> age]

NoStamp == Stamp("none", 0)

\* parse_iso: None for an empty or unparseable string, else the datetime
parse_iso(dt) ==
    IF dt.kind \in {"aware", "naive"} THEN dt ELSE NoStamp

\* is_stale raises TypeError: now_utc() is offset-aware, and Python refuses to
\* subtract an offset-naive datetime from it
is_stale_raises(updated_at_iso) == parse_iso(updated_at_iso).kind = "naive"

\* is_stale, when it returns
is_stale(updated_at_iso, stale_days) ==
    LET dt == parse_iso(updated_at_iso)
    IN  IF dt = NoStamp THEN FALSE ELSE dt.age >= stale_days

----------------------------------------------------------------------------
(* app/retrieval/models.py *)

RetrievedItem(source, score, text, meta) ==
    [source |-> source, score |-> score, text |-> text, meta |-> meta]

\* the metadata of an index record: the keys the engine reads, each None when
\* the key is missing (updatedAt: NoStamp)
EmptyMeta ==
    [ article_id |-> None, chunk_index |-> None, block_id |-> None,
      chunk_role |-> None, updatedAt |-> NoStamp, text |-> None,
      faq_id |-> None, question |-> None, answer |-> None, titulo |-> None,
      q |-> None, block_title |-> None, block_definition |-> None ]

----------------------------------------------------------------------------
(* app/policy/decider.py *)

Decision(action, reason, source_kind, caution_note) ==
    [ action |-> action, reason |-> reason,
      source_kind |-> source_kind, caution_note |-> caution_note ]

\* the place of a Decision while decide has returned none
NoDecision == Decision(None, None, None, None)

\* outcome of a call: a returned value, or an exception
Return(v) == [exc |-> "none", value |-> v]
Raise(e)  == [exc |-> e, value |-> None]

\* "pantalla" in safe_str(question).lower(): the words that hold the substring
PantallaWords == {"pantalla", "Pantalla", "pantallas"}

has_pantalla(q) == \E i \in 1..Len(q) : q[i] \in PantallaWords

\* PolicyDecider._caution_if_stale
caution_if_stale(c, item, lg) ==
    LET upd == item.meta.updatedAt
    IN  IF upd = NoStamp THEN Return(None)
        ELSE IF is_stale_raises(upd) THEN Raise("TypeError")
        ELSE IF is_stale(upd, c.stale_days_warn)
             THEN Return(CASE lg = "ca" -> "Aixo pot haver canviat"
                           [] lg = "en" -> "This may have changed"
                           [] OTHER     -> "Esto puede haber cambiado")
             ELSE Return(None)

\* an "answer" Decision with the caution of the selected candidate
Answer(c, reason, source_kind, item, lg) ==
    LET note == caution_if_stale(c, item, lg)
    IN  IF note.exc # "none" THEN Raise(note.exc)
        ELSE Return(Decision("answer", reason, source_kind, note.value))

\* rule 1 with strict comparisons: a score of exactly 0.20 is no longer low
both_below_min_score_strict(faq_score, art_score) == faq_score < 20 /\ art_score < 20

\* rule 1: clarify when both top scores are very low
both_below_min_score(faq_score, art_score) == faq_score <= 20 /\ art_score <= 20

\* rule 2: strong article override
articles_override(has_art, art_score) == has_art /\ art_score >= 78

\* rule 3: FAQ override
faq_override(has_faq, faq_score, pantalla) ==
    has_faq /\ faq_score >= 70 /\ ~pantalla

\* rule 4: margin read from the config attribute faq_over_article_margin
margin_of(c) ==
    LET m == getattr(c, "faq_over_article_margin", 5)
    IN  IF m = 0 THEN 5 ELSE m

\* rule 4: the FAQ is preferred when it is within the margin of the article
faq_preferred_within_margin(faq_score, art_score, margin) ==
    faq_score >= art_score - margin

\* PolicyDecider.decide
decide(c, q, lg, fs, as) ==
    LET has_faq   == fs # <<>>
        has_art   == as # <<>>
        faq_score == IF has_faq THEN fs[1].score ELSE 0
        art_score == IF has_art THEN as[1].score ELSE 0
        pantalla  == has_pantalla(q)
        margin    == margin_of(c)
    IN  IF both_below_min_score(faq_score, art_score)
          THEN Return(Decision("clarify", "both_below_min_score", "none", None))
        ELSE IF articles_override(has_art, art_score)
          THEN Answer(c, "articles_override_0_78", "article", as[1], lg)
        ELSE IF faq_override(has_faq, faq_score, pantalla)
          THEN Answer(c, "faq_override_0_70_no_pantalla", "faq", fs[1], lg)
        ELSE IF has_faq /\ has_art
          THEN IF faq_preferred_within_margin(faq_score, art_score, margin)
                 THEN Answer(c, "faq_preferred_within_margin", "faq", fs[1], lg)
                 ELSE Answer(c, "article_wins_over_margin", "article", as[1], lg)
        ELSE IF has_faq
          THEN Answer(c, "faq_only", "faq", fs[1], lg)
        ELSE IF has_art
          THEN Answer(c, "article_only", "article", as[1], lg)
        ELSE Return(Decision("clarify", "low_signal_no_candidates", "none", None))

----------------------------------------------------------------------------
(* app/utils/__init__.py, app/retrieval/retriever.py: strings and integers *)

\* A metadata value is modelled by the text str() gives for it, or None.
\* safe_str: "" for None, else str(x)
safe_str(x) == IF x = None THEN "" ELSE x

\* str.strip on the strings of the model
strip(s) ==
    CASE s = "b1 " -> "b1"
      [] s = " 1"  -> "1"
      [] s = " f1" -> "f1"
      [] OTHER     -> s

\* the strings int() accepts, with their values
IntTexts == {"0", "1", "2"}

int(s) == CASE s = "0" -> 0 [] s = "1" -> 1 [] s = "2" -> 2

\* the sort position of a chunk whose chunk_index is missing or no integer
MissingIndex == 1000000000

\* _to_int: default for None and for what int() rejects
to_int(x, default) ==
    IF x = None THEN default
    ELSE IF strip(x) \in IntTexts THEN int(strip(x)) ELSE default

\* Python's order on the article_id strings of the model, ascending
StrOrder == <<"", "a1", "a2">>

StrRank(s) == CHOOSE i \in 1..Len(StrOrder) : StrOrder[i] = s

Max(a, b) == IF a >= b THEN a ELSE b
Min(a, b) == IF a <= b THEN a ELSE b

\* seq[:n]
Head_n(seq, n) == SubSeq(seq, 1, Min(Len(seq), Max(n, 0)))

----------------------------------------------------------------------------
(* app/retrieval/retriever.py *)

\* Python's "a or b" on metadata values: b when a is None or ""
py_or(a, b) == IF a = None \/ a = "" THEN b ELSE a

\* Retriever._to_item (score and metadata already normalised by the gateway)
to_item(source, r) ==
    RetrievedItem(source, r.score,
                  IF source = "faq"
                    THEN safe_str(py_or(r.metadata.answer, r.metadata.text))
                    ELSE safe_str(r.metadata.text),
                  r.metadata)

\* Retriever._article_key: the four stripped fields joined by "::"
article_key(it) ==
    << strip(safe_str(it.meta.article_id)),
       strip(safe_str(it.meta.chunk_index)),
       strip(safe_str(it.meta.block_id)),
       strip(safe_str(it.meta.chunk_role)) >>

\* a Python dict, as the sequence of its entries in insertion order
DictHas(d, k) == \E i \in 1..Len(d) : d[i].key = k

\* d[k] = v: a new key goes last, a known key keeps its place
DictSet(d, k, v) ==
    IF DictHas(d, k)
      THEN [i \in 1..Len(d) |-> IF d[i].key = k THEN [key |-> k, value |-> v] ELSE d[i]]
      ELSE Append(d, [key |-> k, value |-> v])

\* list(d.values())
DictValues(d) == [i \in 1..Len(d) |-> d[i].value]

\* for it in items: by_key[self._article_key(it)] = it
RECURSIVE dedupe(_, _)
dedupe(by_key, items) ==
    IF items = <<>> THEN by_key
    ELSE dedupe(DictSet(by_key, article_key(items[1]), items[1]), Tail(items))

\* the merge without the line that stores the anchor
ensure_anchor_skipped(by_key, anchor) == by_key

\* by_key[self._article_key(anchor)] = anchor
ensure_anchor(by_key, anchor) == DictSet(by_key, article_key(anchor), anchor)

\* the key with a default below every index: unindexed chunks would sort first
sort_key_missing_first(it) ==
    [aid |-> safe_str(it.meta.article_id),
     idx |-> to_int(it.meta.chunk_index, -1)]

\* key of _sort_article_chunks: (safe_str(article_id), chunk_index as an int)
sort_key(it) ==
    [aid |-> safe_str(it.meta.article_id),
     idx |-> to_int(it.meta.chunk_index, MissingIndex)]

\* tuple order on two sort keys
KeyLess(a, b) ==
    \/ StrRank(a.aid) < StrRank(b.aid)
    \/ (a.aid = b.aid /\ a.idx < b.idx)

\* sorted() is stable: x goes after every element that is not greater
RECURSIVE InsertSorted(_, _)
InsertSorted(x, sorted) ==
    IF sorted = <<>> THEN <<x>>
    ELSE IF KeyLess(sort_key(x), sort_key(sorted[1]))
      THEN <<x>> \o sorted
      ELSE <<sorted[1]>> \o InsertSorted(x, Tail(sorted))

\* Retriever._sort_article_chunks
RECURSIVE sort_article_chunks(_)
sort_article_chunks(items) ==
    IF items = <<>> THEN <<>>
    ELSE InsertSorted(items[Len(items)],
                      sort_article_chunks(SubSeq(items, 1, Len(items) - 1)))

\* anchor_block_id of _expand_articles_same_block
\* the block were that of the last candidate
anchor_block_id_of_last(init) == strip(safe_str(init[Len(init)].meta.block_id))

anchor_block_id(init) == strip(safe_str(init[1].meta.block_id))

\* a guard that sends the query for every non-empty list
expansion_runs_without_block(init) == init # <<>>

\* the block-filtered query is issued: a non-empty list whose anchor has a block_id
expansion_runs(init) == init # <<>> /\ anchor_block_id(init) # ""

\* pool_k: the config has no attribute top_k_articles_within_article
pool_k(c) ==
    LET k == getattr(c, "top_k_articles_within_article", 60)
    IN  Max(IF k = 0 THEN 60 ELSE k, 60)

\* hard_cap of the returned list
hard_cap(c) == Max(getattr(c, "top_k_articles_final", 8) * 10, 80)

\* merge of the reply and the anchor, in dict order
merge_block(init, reply) ==
    LET items == [i \in 1..Len(reply) |-> to_item("article", reply[i])]
    IN  DictValues(ensure_anchor(dedupe(<<>>, items), init[1]))

\* Retriever._expand_articles_same_block; reply is what pc.query answers to
\* the block-filtered query (unused when the query is not issued)
expand_articles_same_block(c, init, reply) ==
    IF init = <<>> THEN <<>>
    ELSE IF anchor_block_id(init) = ""
      THEN Head_n(init, c.top_k_articles_final)
    ELSE Head_n(sort_article_chunks(merge_block(init, reply)), hard_cap(c))

----------------------------------------------------------------------------
(* app/clients/embedder.py, app/clients/pinecone_gateway.py *)

\* A text is a sequence of tokens; the token " " is whitespace.
\* (text or "").strip() is empty
blank(text) == \A i \in 1..Len(text) : text[i] = " "

\* Embedder.embed_one; api is the vector the embeddings API answers
embed_one(text, api) == IF blank(text) THEN <<>> ELSE api

\* The score of a match as the index client hands it over: kind "float"
\* (v in hundredths), "absent" (key missing, or None) or "text" (a string
\* that is no number)
Float(v) == [kind |-> "float", v |-> v]
AbsentScore == [kind |-> "absent", v |-> 0]
TextScore == [kind |-> "text", v |-> 0]

Match(score, metadata) == [score |-> score, metadata |-> metadata]

\* float(m.get("score") or 0.0): float() raises ValueError on such a string
float_or_zero(score) ==
    CASE score.kind = "absent" -> Return(0)
      [] score.kind = "float"  -> Return(score.v)
      [] score.kind = "text"   -> Raise("ValueError")

\* PineconeGateway.query, after the index answered matches
gateway_query(matches) ==
    IF \E i \in 1..Len(matches) : float_or_zero(matches[i].score).exc # "none"
      THEN Raise("ValueError")
      ELSE Return([i \in 1..Len(matches) |->
                     [score    |-> float_or_zero(matches[i].score).value,
                      metadata |-> matches[i].metadata]])

\* a gateway that turns a failure of the service into an empty reply
index_query_swallowed(matches, failing) ==
    IF failing THEN Return(<<>>) ELSE gateway_query(matches)

\* PineconeGateway.query: self.index.query raises when the service fails
index_query(matches, failing) ==
    IF failing THEN Raise("IndexQueryError") ELSE gateway_query(matches)

\* the arguments of one index query; flt is None or the block_id to match
IndexQuery(namespace, vector, top_k, flt) ==
    [namespace |-> namespace, vector |-> vector, top_k |-> top_k, flt |-> flt]

----------------------------------------------------------------------------
(* app/retrieval/retriever.py: retrieve and expand_articles *)

\* the comparison that moves an item ahead of equal scores: ties are reordered
ranks_before_on_ties(x, y) == x.score >= y.score

\* sorted(key=score, reverse=True): x goes ahead of y only for a higher score
ranks_before(x, y) == x.score > y.score

RECURSIVE InsertByScore(_, _)
InsertByScore(x, sorted) ==
    IF sorted = <<>> THEN <<x>>
    ELSE IF ranks_before(x, sorted[1])
      THEN <<x>> \o sorted
      ELSE <<sorted[1]>> \o InsertByScore(x, Tail(sorted))

\* sorted(items, key=lambda x: x.score, reverse=True)
RECURSIVE sort_by_score(_)
sort_by_score(items) ==
    IF items = <<>> THEN <<>>
    ELSE InsertByScore(items[Len(items)],
                       sort_by_score(SubSeq(items, 1, Len(items) - 1)))

\* [self._to_item(source, r) for r in records]
to_items(source, records) == [i \in 1..Len(records) |-> to_item(source, records[i])]

\* _expand_articles_same_block with the index in the loop: w.block is what the
\* index answers to the block-filtered query, qs the queries issued before
expand_with_index(c, emb, init, w, qs) ==
    IF ~expansion_runs(init)
      THEN [exc |-> "none", items |-> expand_articles_same_block(c, init, <<>>),
            queries |-> qs]
    ELSE LET q == IndexQuery(c.namespace_articles, emb, pool_k(c), anchor_block_id(init))
             r == index_query(w.block, w.outage = "block")
         IN  IF r.exc # "none"
               THEN [exc |-> r.exc, items |-> <<>>, queries |-> Append(qs, q)]
               ELSE [exc |-> "none",
                     items |-> expand_articles_same_block(c, init, r.value),
                     queries |-> Append(qs, q)]

\* a guard that never takes the early return
no_embedding_never(emb) == FALSE

\* "if not emb": the embedding is the empty list
no_embedding(emb) == emb = <<>>

\* outcome of retrieve: the exception or the two lists, and the queries issued
Retrieved(e, fs, as, qs) == [exc |-> e, faqs |-> fs, arts |-> as, queries |-> qs]

\* Retriever.retrieve
retrieve(c, q, x, w) ==
    LET emb == embed_one(q, w.emb)
        q1  == IndexQuery(c.namespace_faqs, emb, c.top_k_faq_candidates, None)
        q2  == IndexQuery(c.namespace_articles, emb, c.top_k_articles_candidates, None)
        fr  == index_query(w.faq, w.outage = "faq")
        ar  == index_query(w.art, w.outage = "articles")
        fs  == sort_by_score(to_items("faq", fr.value))
        as  == sort_by_score(to_items("article", ar.value))
        ex  == expand_with_index(c, emb, as, w, <<q1, q2>>)
    IN  IF no_embedding(emb) THEN Retrieved("none", <<>>, <<>>, <<>>)
        ELSE IF fr.exc # "none" THEN Retrieved(fr.exc, <<>>, <<>>, <<q1>>)
        ELSE IF ar.exc # "none" THEN Retrieved(ar.exc, <<>>, <<>>, <<q1, q2>>)
        ELSE IF ~x THEN Retrieved("none", fs, as, <<q1, q2>>)
        ELSE IF ex.exc # "none" THEN Retrieved(ex.exc, <<>>, <<>>, ex.queries)
        ELSE Retrieved("none", fs, ex.items, ex.queries)

\* Retriever.expand_articles: the question is embedded again, and w.emb2 is
\* what the embeddings API answers this time
expand_articles(c, q, init, w) ==
    IF no_embedding(embed_one(q, w.emb2))
      THEN [exc |-> "none", items |-> init, queries |-> <<>>]
      ELSE expand_with_index(c, embed_one(q, w.emb2), init, w, <<>>)

----------------------------------------------------------------------------
(* app/context/__init__.py *)

\* A rendered string is the sequence of its characters.  chars gives the
\* characters of a metadata value or text of the model.
chars(s) ==
    CASE s = ""    -> <<>>
      [] s = "a1"  -> <<"a", "1">>
      [] s = "a2"  -> <<"a", "2">>
      [] s = " 1"  -> <<" ", "1">>
      [] s = "1.0" -> <<"1", ".", "0">>
      [] s = "t "  -> <<"t", " ">>
      [] OTHER     -> <<s>>

Whitespace == {" ", "\n"}

\* str.lstrip, str.rstrip, str.strip on a sequence of characters
RECURSIVE lstrip(_)
lstrip(cs) ==
    IF cs # <<>> /\ cs[1] \in Whitespace THEN lstrip(Tail(cs)) ELSE cs

RECURSIVE rstrip(_)
rstrip(cs) ==
    IF cs # <<>> /\ cs[Len(cs)] \in Whitespace
      THEN rstrip(SubSeq(cs, 1, Len(cs) - 1)) ELSE cs

strip_chars(cs) == lstrip(rstrip(cs))

Digit == <<"1", "2", "3", "4", "5", "6", "7", "8", "9">>

\* str(i) for i >= 0
RECURSIVE str_of_int(_)
str_of_int(i) ==
    LET d == IF i % 10 = 0 THEN "0" ELSE Digit[i % 10]
    IN  IF i < 10 THEN <<d>> ELSE Append(str_of_int(i \div 10), d)

\* "\n".join([p for p in parts if p.strip()])
RECURSIVE join_lines(_)
join_lines(parts) ==
    IF parts = <<>> THEN <<>>
    ELSE LET rest == join_lines(Tail(parts))
         IN  IF strip_chars(parts[1]) = <<>> THEN rest
             ELSE IF rest = <<>> THEN parts[1]
             ELSE parts[1] \o <<"\n">> \o rest

\* the slice left out: the whole text is returned
truncate_never(out, n) == out

\* out[: self.cfg.max_context_chars]
truncate(out, n) == Head_n(out, n)

\* one line of build_faqs: "- [FAQ{i}] Q: {q} A: {a}", stripped
faq_line(i, it) ==
    LET q == chars(safe_str(py_or(py_or(it.meta.question, it.meta.q), "")))
        a == chars(it.text)
    IN  strip_chars(<<"-", " ", "[", "F", "A", "Q">> \o str_of_int(i) \o <<"]", " ">>
                    \o (IF q # <<>> THEN <<"Q", ":", " ">> \o q \o <<" ">> ELSE <<>>)
                    \o <<"A", ":", " ">> \o a)

\* the FAQs build_faqs enumerates: faqs[: self.cfg.top_k_faqs]
faqs_rendered(c, fs) == Head_n(fs, c.top_k_faqs)

\* ContextBuilder.build_faqs
build_faqs(c, fs) ==
    LET shown == faqs_rendered(c, fs)
        parts == IF fs = <<>> THEN <<>>
                 ELSE << <<"F", "A", "Q", "s", ":">> >>
                      \o [i \in 1..Len(shown) |-> faq_line(i, shown[i])]
    IN  strip_chars(truncate(strip_chars(join_lines(parts)), c.max_context_chars))

\* _llm_body on a text of one line that is no header (Títol:, Rol:, ...): the
\* first paragraph is the stripped text
llm_body(text) == strip_chars(chars(text))

\* the header line of an article: "- [A{i}] article_id={aid} chunk_index={idx}"
\* and the optional " | Títol: ", " | Bloc: ", " | Rol: ", " | Definició bloc: "
article_header(i, it) ==
    LET field(v) == chars(safe_str(py_or(v, "")))
        opt(label, v) == IF field(v) # <<>> THEN label \o field(v) ELSE <<>>
    IN  strip_chars(<<"-", " ", "[", "A">> \o str_of_int(i) \o <<"]", " ">>
                    \o <<"a", "r", "t", "i", "c", "l", "e", "_", "i", "d", "=">>
                    \o field(it.meta.article_id)
                    \o <<" ", "c", "h", "u", "n", "k", "_", "i", "n", "d", "e", "x", "=">>
                    \o field(it.meta.chunk_index))
        \o opt(<<" ", "|", " ", "T", "í", "t", "o", "l", ":", " ">>, it.meta.titulo)
        \o opt(<<" ", "|", " ", "B", "l", "o", "c", ":", " ">>, it.meta.block_title)
        \o opt(<<" ", "|", " ", "R", "o", "l", ":", " ">>, it.meta.chunk_role)
        \o opt(<<" ", "|", " ", "D", "e", "f", "i", "n", "i", "c", "i", "ó", " ",
                 "b", "l", "o", "c", ":", " ">>, it.meta.block_definition)

\* the body line of an article: "  Text: {body}", stripped
article_body(it) ==
    strip_chars(<<" ", " ", "T", "e", "x", "t", ":", " ">> \o llm_body(it.text))

\* block_limit = int(self.cfg.top_k_articles_block_context or 15)
block_limit(c) ==
    IF c.top_k_articles_block_context = 0 THEN 15 ELSE c.top_k_articles_block_context

\* the sorted list cut without a limit
cut_to_block_limit_skipped(c, sorted) == sorted

\* arts[:block_limit]
cut_to_block_limit(c, sorted) == Head_n(sorted, block_limit(c))

\* the articles build_articles enumerates: sorted(arts, key=sort_key)[:block_limit]
articles_rendered(c, as) == cut_to_block_limit(c, sort_article_chunks(as))

\* the two lines of every article, in order
RECURSIVE article_lines(_, _)
article_lines(i, shown) ==
    IF shown = <<>> THEN <<>>
    ELSE <<article_header(i, shown[1]), article_body(shown[1])>>
         \o article_lines(i + 1, Tail(shown))

\* ContextBuilder.build_articles
build_articles(c, as) ==
    LET shown == articles_rendered(c, as)
        parts == IF as = <<>> THEN <<>>
                 ELSE << <<"A", "r", "t", "i", "c", "l", "e", "s", ":">> >>
                      \o article_lines(1, shown)
    IN  strip_chars(truncate(strip_chars(join_lines(parts)), c.max_context_chars))

----------------------------------------------------------------------------
(* app/faq_judge.py, app/query_rewriter.py *)

\* What the judge model answers: kind "object" (a JSON object whose
\* selected_ids is the list ids), "no_json" (no braces in the text),
\* "bad_json" (json.loads or the reading of its fields raises) or "raises"
\* (the chat completion itself fails)
JudgeOutput(kind, ids) == [kind |-> kind, ids |-> ids]

\* [str(x).strip() for x in ids if str(x).strip()]
RECURSIVE clean_ids(_)
clean_ids(ids) ==
    IF ids = <<>> THEN <<>>
    ELSE IF strip(ids[1]) = "" THEN clean_ids(Tail(ids))
    ELSE <<strip(ids[1])>> \o clean_ids(Tail(ids))

\* parse_judge_json: the selected_ids of the JudgeResult
parse_judge_json(out) ==
    IF out.kind = "object" THEN Head_n(clean_ids(out.ids), 5) ELSE <<>>

\* FAQJudge.select
select(out) ==
    IF out.kind = "raises" THEN Raise("JudgeError") ELSE Return(parse_judge_json(out))

\* the parameters of QueryRewriter.rewrite
RewriteParams == {"last_user", "last_bot", "font", "lang"}

\* QueryRewriter.rewrite: the chat completion may fail; any output, malformed
\* or not, gives a RewriteResult object
rewrite(mode) ==
    IF mode = "raises" THEN Raise("RewriterError") ELSE Return("RewriteResult")

----------------------------------------------------------------------------
(* app/utils/__init__.py, app/service/chatbot.py: helpers on texts *)

\* the words _LANG_CA_HINT and _LANG_ES_HINT look for
CaHints == {"què", "com", "on", "aquesta", "aquest", "cerca", "puc", "he", "cal"}
EsHints == {"qué", "como", "dónde", "esta", "este", "buscar", "puedo", "tengo", "debo"}

HasWord(text, words) == \E i \in 1..Len(text) : text[i] \in words

\* detect_language: "es" only for Spanish hints without Catalan ones
detect_language(text) ==
    IF HasWord(text, EsHints) /\ ~HasWord(text, CaHints) THEN "es" ELSE "ca"

\* _extract_screen_name: what follows the word pantalla or screen, when it
\* has 2 to 80 characters (the one-letter name x has not)
extract_screen_name(text) ==
    LET at == { i \in 1..Len(text) : text[i] \in {"pantalla", "Pantalla", "screen"} }
        first == CHOOSE i \in at : \A j \in at : i <= j
        name == SubSeq(text, first + 1, Len(text))
    IN  IF at = {} THEN <<>>
        ELSE IF name \in { <<>>, <<"x">> } THEN <<>>
        ELSE name

\* _should_update_topic: the text holds one of the topic keywords
should_update_topic(text) == HasWord(text, PantallaWords)

\* the words of the model in which _has_clear_entities finds an entity: a
\* hint of _ENTITY_HINTS inside the word, or a word in capitals
EntityWords == PantallaWords \cup {"TMB", "cartas"}

\* the words of the model among _DEICTIC_TOKENS, and the vague question
\* words of _is_deictic
DeicticWords == {"la", "lo", "eso", "esto"}
VagueWords   == {"como", "que", "por"}

\* _WORD_RE.findall: the words of a text, without its whitespace
words_of(text) == SelectSeq(text, LAMBDA t : t \notin {" ", "\n"})

\* _has_clear_entities
has_clear_entities(text) == HasWord(text, EntityWords)

\* _is_short: one to four words
is_short(text) == Len(words_of(text)) \in 1..4

\* _is_deictic: a deictic word, or a vague question of at most two words
is_deictic(text) ==
    \/ HasWord(text, DeicticWords)
    \/ Len(words_of(text)) <= 2 /\ HasWord(text, VagueWords)

\* _should_use_context: short or deictic, and without clear entities
should_use_context(text) ==
    /\ ~blank(text)
    /\ ~has_clear_entities(text)
    /\ is_short(text) \/ is_deictic(text)

\* the first words of the source lines _SOURCE_LINE_RE removes
SourceWords == {"Fuente:", "Font:", "Source:"}

\* _clean_last_bot_for_context: the answer without its source line, on one line
RECURSIVE clean_last_bot_for_context(_)
clean_last_bot_for_context(text) ==
    IF text = <<>> \/ text[1] \in SourceWords THEN <<>>
    ELSE IF text[1] \in {" ", "\n"} THEN clean_last_bot_for_context(Tail(text))
    ELSE <<text[1]>> \o clean_last_bot_for_context(Tail(text))

\* ChatbotService._last_user_message / _last_bot_message
RECURSIVE last_message(_, _)
last_message(msgs, roles) ==
    IF msgs = <<>> THEN <<>>
    ELSE LET m == msgs[Len(msgs)]
         IN  IF m.role \in roles /\ ~blank(m.content)
               THEN strip_chars(m.content)
               ELSE last_message(SubSeq(msgs, 1, Len(msgs) - 1), roles)

\* d.get(k, default) on a dict
DictGet(d, k, default) ==
    IF DictHas(d, k) THEN (CHOOSE e \in { d[i] : i \in 1..Len(d) } : e.key = k).value
    ELSE default

\* _pick_source_line, as words: the base by language, then the FAQ theme, or
\* the article title and the month of its update ("ym"); the dash of the
\* program is written - here
pick_source_line(lg, dec, fs, as) ==
    IF dec.source_kind = "faq" /\ fs # <<>>
      THEN LET theme == safe_str(fs[1].meta.question)
           IN  <<IF lg = "ca" THEN "Font:" ELSE IF lg = "en" THEN "Source:" ELSE "Fuente:",
                 "FAQ">> \o (IF theme # "" THEN <<"-", theme>> ELSE <<>>)
    ELSE IF dec.source_kind = "article" /\ as # <<>>
      THEN LET titulo == strip(safe_str(as[1].meta.titulo))
           IN  <<IF lg = "ca" THEN "Font:" ELSE IF lg = "en" THEN "Source:" ELSE "Fuente:",
                 "Wiki">> \o (IF titulo # "" THEN <<titulo>> ELSE <<>>)
               \o (IF parse_iso(as[1].meta.updatedAt) # NoStamp
                     THEN <<"-", "ym">> ELSE <<>>)
    ELSE <<>>

\* _enforce_source_line on an answer that holds no source line of its own
enforce_source_line(ans, source_line) ==
    IF source_line = <<>> THEN strip_chars(ans)
    ELSE IF strip_chars(ans) = <<>> THEN source_line
    ELSE strip_chars(ans) \o <<"\n", "\n">> \o source_line

----------------------------------------------------------------------------
(* app/service/chatbot.py: ChatbotService.handle_messages *)

\* the keyword arguments handle_messages passes to QueryRewriter.rewrite
RewriteKeywords ==
    {"last_user", "topic_question", "last_bot", "lang", "screen_hint", "root_question"}

\* Python raises TypeError on a keyword argument the function does not declare
keywords_accepted(keywords, params) == keywords \subseteq params

\* [it for it in faqs if safe_str(it.meta.get("faq_id")).strip() in ids]
RECURSIVE filter_selected(_, _)
filter_selected(fs, ids) ==
    IF fs = <<>> THEN <<>>
    ELSE IF \E i \in 1..Len(ids) : ids[i] = strip(safe_str(fs[1].meta.faq_id))
      THEN <<fs[1]>> \o filter_selected(Tail(fs), ids)
      ELSE filter_selected(Tail(fs), ids)

\* the evidence when the judge selected nothing usable: nothing at all
fallback_to_nothing(c, fs) == <<>>

\* selected_faqs = faqs[: self.cfg.top_k_faq_final]
fallback_to_top(c, fs) == Head_n(fs, c.top_k_faq_final)

\* the FAQ evidence after the judge answered ids
select_faqs(c, fs, ids) ==
    LET picked == Head_n(filter_selected(fs, ids), c.top_k_faq_final)
    IN  IF picked = <<>> THEN fallback_to_top(c, fs) ELSE picked

\* what handle_messages leaves behind: the exception, or the fields of the
\* dict it returns (question is debug.effective_question)
NoOutcome ==
    [ exc |-> "none", question |-> <<>>, lang |-> "es", faqs |-> <<>>, arts |-> <<>>,
      decision |-> NoDecision, selected |-> <<>>, expanded |-> <<>>,
      context |-> <<>>, answer |-> <<>>, state |-> <<>>, queries |-> <<>>,
      calls |-> <<>> ]

\* a call to a collaborator, with the arguments the claims look at: the
\* context fields of the rewriter and the source line of the chat model
Call(to, last_bot, topic_question, source_line) ==
    [ to |-> to, last_bot |-> last_bot, topic_question |-> topic_question,
      source_line |-> source_line ]

CallTo(to) == Call(to, <<>>, <<>>, <<>>)

\* the call left by exception e after the queries qs and the calls made
Failure(e, qs, made) == [NoOutcome EXCEPT !.exc = e, !.queries = qs, !.calls = made]

\* the reply were the answer not written to the state
respond_without_last_bot(q, lg, s, w, res, d, sel, exp, qs, made, rag, src) ==
    IF w.llm.kind = "raises"
      THEN Failure("LLMError", qs, made \o <<Call("llm", <<>>, <<>>, src)>>)
    ELSE LET ans == IF rag # <<>> /\ src # <<>>
                      THEN enforce_source_line(w.llm.text, src)
                      ELSE strip_chars(w.llm.text)
         IN  [ exc |-> "none", question |-> q, lang |-> lg,
               faqs |-> res.faqs, arts |-> res.arts, decision |-> d,
               selected |-> sel, expanded |-> exp,
               context |-> rag, answer |-> ans,
               state |-> s, queries |-> qs,
               calls |-> made \o <<Call("llm", <<>>, <<>>, src)>> ]

\* handle_messages, the reply: llm.run, the source line, state["last_bot"]
respond(q, lg, s, w, res, d, sel, exp, qs, made, rag, src) ==
    IF w.llm.kind = "raises"
      THEN Failure("LLMError", qs, made \o <<Call("llm", <<>>, <<>>, src)>>)
    ELSE LET ans == IF rag # <<>> /\ src # <<>>
                      THEN enforce_source_line(w.llm.text, src)
                      ELSE strip_chars(w.llm.text)
         IN  [ exc |-> "none", question |-> q, lang |-> lg,
               faqs |-> res.faqs, arts |-> res.arts, decision |-> d,
               selected |-> sel, expanded |-> exp,
               context |-> rag, answer |-> ans,
               state |-> DictSet(s, "last_bot", ans), queries |-> qs,
               calls |-> made \o <<Call("llm", <<>>, <<>>, src)>> ]

\* the context were the retrieved articles added to the FAQ evidence
compose_with_articles(c, q, lg, s, w, res, d, sel, exp, qs, made) ==
    respond(q, lg, s, w, res, d, sel, exp, qs, made,
            IF d.source_kind = "faq" THEN build_faqs(c, sel) \o build_articles(c, res.arts)
            ELSE IF d.source_kind = "article" THEN build_articles(c, exp)
            ELSE <<>>,
            pick_source_line(lg, d, sel, exp))

\* handle_messages, the context: sel and exp are the evidence of the decision
compose(c, q, lg, s, w, res, d, sel, exp, qs, made) ==
    respond(q, lg, s, w, res, d, sel, exp, qs, made,
            IF d.source_kind = "faq" THEN build_faqs(c, sel)
            ELSE IF d.source_kind = "article" THEN build_articles(c, exp)
            ELSE <<>>,
            pick_source_line(lg, d, sel, exp))

\* handle_messages, the FAQ branch after the judge answered (or failed)
answer_from_faqs(c, q, lg, s, w, res, d, jr) ==
    IF jr.exc # "none"
      THEN Failure(jr.exc, res.queries, <<CallTo("retriever"), CallTo("judge")>>)
    ELSE compose(c, q, lg, s, w, res, d, select_faqs(c, res.faqs, jr.value), <<>>,
                 res.queries, <<CallTo("retriever"), CallTo("judge")>>)

\* handle_messages, the article branch after expand_articles returned (or failed)
answer_from_articles(c, q, lg, s, w, res, d, ex) ==
    IF ex.exc # "none"
      THEN Failure(ex.exc, res.queries \o ex.queries,
                   <<CallTo("retriever"), CallTo("expand_articles")>>)
    ELSE compose(c, q, lg, s, w, res, d, <<>>, ex.items, res.queries \o ex.queries,
                 <<CallTo("retriever"), CallTo("expand_articles")>>)

\* handle_messages after decide: the judge is asked about retrieved FAQs, the
\* articles are expanded, any other decision goes on without evidence
after_decide(c, q, lg, s, w, res, dec) ==
    IF dec.exc # "none" THEN Failure(dec.exc, res.queries, <<CallTo("retriever")>>)
    ELSE IF dec.value.source_kind = "faq" /\ res.faqs # <<>>
      THEN answer_from_faqs(c, q, lg, s, w, res, dec.value, select(w.judge))
    ELSE IF dec.value.source_kind = "article"
      THEN answer_from_articles(c, q, lg, s, w, res, dec.value,
                                expand_articles(c, q, res.arts, w))
    ELSE compose(c, q, lg, s, w, res, dec.value, <<>>, <<>>, res.queries,
                 <<CallTo("retriever")>>)

\* handle_messages after retrieve
after_retrieve(c, q, lg, s, w, res) ==
    IF res.exc # "none" THEN Failure(res.exc, res.queries, <<CallTo("retriever")>>)
    ELSE after_decide(c, q, lg, s, w, res, decide(c, q, lg, res.faqs, res.arts))

\* the call of the rewriter on a turn that is not the first: the previous
\* answer and the topic only when the message is to be read in their context
rewrite_call(q, s) ==
    IF should_use_context(q)
      THEN Call("rewriter", clean_last_bot_for_context(DictGet(s, "last_bot", <<>>)),
                DictGet(s, "topic_question", <<>>), <<>>)
      ELSE CallTo("rewriter")

\* a turn that is not the first: the call of the rewriter
rewritten_turn(q, s, w) ==
    IF ~keywords_accepted(RewriteKeywords, RewriteParams)
      THEN Failure("TypeError", <<>>, <<>>)
    ELSE IF rewrite(w.rewriter).exc # "none"
      THEN Failure(rewrite(w.rewriter).exc, <<>>, <<rewrite_call(q, s)>>)
    \* effective_question is a RewriteResult, and embed_one calls its strip()
    ELSE Failure("AttributeError", <<>>, <<rewrite_call(q, s), CallTo("retriever")>>)

\* the state were every message taken for a topic
updated_state_topic_always(msgs, st) ==
    LET last_user == last_message(msgs, {"user"})
        screen    == IF extract_screen_name(last_user) # <<>>
                       THEN extract_screen_name(last_user)
                       ELSE extract_screen_name(DictGet(st, "last_bot", <<>>))
        s1 == IF screen # <<>> THEN DictSet(st, "screen_hint", screen) ELSE st
        s2 == IF last_user # <<>>
                THEN DictSet(s1, "topic_question", last_user) ELSE s1
        last_bot_prev == last_message(msgs, {"assistant", "bot"})
        s3 == IF last_bot_prev # <<>> THEN DictSet(s2, "last_bot", last_bot_prev) ELSE s2
    IN  DictSet(s3, "last_user", last_user)

\* the state after handle_messages took in the messages: screen_hint,
\* topic_question, last_bot and last_user
updated_state(msgs, st) ==
    LET last_user == last_message(msgs, {"user"})
        screen    == IF extract_screen_name(last_user) # <<>>
                       THEN extract_screen_name(last_user)
                       ELSE extract_screen_name(DictGet(st, "last_bot", <<>>))
        s1 == IF screen # <<>> THEN DictSet(st, "screen_hint", screen) ELSE st
        s2 == IF last_user # <<>> /\ should_update_topic(last_user)
                THEN DictSet(s1, "topic_question", last_user) ELSE s1
        last_bot_prev == last_message(msgs, {"assistant", "bot"})
        s3 == IF last_bot_prev # <<>> THEN DictSet(s2, "last_bot", last_bot_prev) ELSE s2
    IN  DictSet(s3, "last_user", last_user)

\* handle_messages once the state s is updated; q is the last user message
handle_turn(c, q, s, w) ==
    IF DictGet(s, "last_bot", <<>>) # <<>>
      THEN rewritten_turn(q, s, w)
      ELSE after_retrieve(c, q, detect_language(q), s, w, retrieve(c, q, FALSE, w))

\* ChatbotService.handle_messages
handle_messages(c, msgs, st, w) ==
    handle_turn(c, last_message(msgs, {"user"}), updated_state(msgs, st), w)

----------------------------------------------------------------------------
(* Inputs of decide *)

\* relevance scores around the boundaries of the rules
Scores == {0, 10, 15, 20, 21, 50, 57, 60, 62, 70, 77, 78}

\* updatedAt values: absent, unparseable, and parseable ones of several ages
Stamps ==
    { NoStamp, Stamp("garbled", 0),
      Stamp("aware", 100), Stamp("aware", 539), Stamp("aware", 540),
      Stamp("aware", 600), Stamp("naive", 600) }

Questions == { <<"como", "exporto">>, <<"la", "Pantalla", "inicio">> }

Langs == {"ca", "en", "es"}

TopItems(source) ==
    { RetrievedItem(source, s, "t", [EmptyMeta EXCEPT !.updatedAt = u, !.text = "t"]) :
        s \in Scores, u \in Stamps }

\* the candidate that may follow the top one: lowest score, stale and naive
TailItem(source) ==
    RetrievedItem(source, 0, "t",
                  [EmptyMeta EXCEPT !.updatedAt = Stamp("naive", 600), !.text = "t"])

\* the lists retrieve hands to decide: sorted by score, descending
Candidates(source) ==
    {<<>>} \cup
    { <<h>> \o [i \in 1..n |-> TailItem(source)] :
        h \in TopItems(source), n \in 0..MaxTail }

----------------------------------------------------------------------------
(* Inputs of block expansion *)

Chunk(article_id, chunk_index, block_id) ==
    [EmptyMeta EXCEPT !.article_id = article_id, !.chunk_index = chunk_index,
                      !.block_id = block_id, !.text = "t"]

\* metadata of the records of the article pool: chunks 0 and 1 of a1, a chunk
\* without chunk_index, a chunk of a2 in the same block, a chunk without
\* block_id, and chunk 1 of a1 stored with padded chunk_index and block_id
ArticleMetas ==
    { Chunk("a1", "0", "b1"), Chunk("a1", "1", "b1"), Chunk("a1", None, "b1"),
      Chunk("a2", "0", "b1"), Chunk("a1", "0", None), Chunk("a1", " 1", "b1 ") }

\* metadata of the chunks of one block: chunks 0 and 1 of a1, a chunk without
\* chunk_index, a chunk whose chunk_index is the float 1.0 (str() gives "1.0"),
\* and a chunk of a2
ChunkMetas ==
    { Chunk("a1", "0", "b1"), Chunk("a1", "1", "b1"), Chunk("a1", None, "b1"),
      Chunk("a1", "1.0", "b1"), Chunk("a2", "0", "b1") }

ArticleScores == {62, 80}

\* the records PineconeGateway.query returns: score and metadata
RecordsOf(metas) == [score : ArticleScores, metadata : metas]

ArticleRecords == RecordsOf(ArticleMetas)

ChunkRecords == RecordsOf(ChunkMetas)

\* a ranked list: scores never increase
Ranked(seq) == \A i \in 1..(Len(seq) - 1) : seq[i].score >= seq[i + 1].score

SeqsUpTo(S, n) == UNION { [1..k -> S] : k \in 0..n }

\* the lists retrieve sorts by score before it expands them
InitialListsOf(records) ==
    { [i \in 1..Len(r) |-> to_item("article", r[i])] :
        r \in { x \in SeqsUpTo(records, MaxInitial) : Ranked(x) } }

InitialLists == InitialListsOf(ArticleRecords)

\* what the index answers to a query filtered by block_id == block with top_k
RepliesOf(records, block, top_k) ==
    { x \in SeqsUpTo({ r \in records : r.metadata.block_id = block },
                     Min(MaxReply, top_k)) : Ranked(x) }

Replies(block, top_k) == RepliesOf(ArticleRecords, block, top_k)

----------------------------------------------------------------------------
(* Inputs of retrieve *)

\* query texts: empty, whitespace only, and a question
Queries == { <<>>, <<" ", " ">>, <<"como", "exporto">> }

\* what the embeddings API answers to a non-empty text
Embeddings == { <<>>, <<3, 4>> }

\* what it answers when expand_articles embeds the same text again: nothing,
\* the same vector, or another one
ReEmbeddings == Embeddings \cup { <<3, 5>> }

\* which index query of the call the service fails, if any
Outages == {"none", "faq", "articles", "block"}

\* what the chat model answers to LLMResponder.run: a text, or the call fails
Reply(text) == [kind |-> "text", text |-> text]
LlmFails == [kind |-> "raises", text |-> <<>>]
NoReply == [kind |-> "none", text |-> <<>>]

\* the answers of the collaborators while no call has consulted them
NoWorld ==
    [ emb |-> <<>>, emb2 |-> <<>>, outage |-> "none", faq |-> <<>>, art |-> <<>>,
      block |-> <<>>,
      judge |-> JudgeOutput("none", <<>>), llm |-> NoReply, rewriter |-> "none" ]

Faq(faq_id) ==
    [EmptyMeta EXCEPT !.faq_id = faq_id, !.question = "q", !.answer = "t"]

\* matches of the FAQ namespace: two FAQs of equal score, a better and a
\* negative one, and scores that are absent or not a number
FaqMatches ==
    { Match(Float(50), Faq("f1")), Match(Float(50), Faq("f2")),
      Match(Float(80), Faq("f1")), Match(Float(0 - 12), Faq("f1")),
      Match(AbsentScore, Faq("f2")), Match(TextScore, Faq("f1")) }

\* matches of the article namespace: two chunks of block b1 and one without block
ArticleMatches ==
    { Match(Float(80), Chunk("a1", "1", "b1")),
      Match(Float(62), Chunk("a1", "0", "b1")),
      Match(Float(62), Chunk("a1", "0", None)) }

\* what the index answers to the FAQ query: at most top_k matches, in the
\* order the service chose (retrieve does not rely on it)
FaqReplies(universe, top_k) == SeqsUpTo(universe, Min(MaxMatches, top_k))

\* what the index answers to the global article query
ArticleReplies(top_k) == SeqsUpTo(ArticleMatches, Min(MaxArticleMatches, top_k))

\* what the index answers to the query filtered by block_id == block
BlockReplies(block, top_k) ==
    SeqsUpTo({ m \in ArticleMatches : m.metadata.block_id = block },
             Min(MaxReply, top_k))

\* the article list retrieve holds before expansion, for a reply of the index
articles_of(reply) == sort_by_score(to_items("article", gateway_query(reply).value))

\* The answers of the collaborators to one call in which the service fails
\* query o; an answer nobody asks for is left empty.
\* the vector for the text q
EmbeddingsFor(q) == IF blank(q) THEN {<<>>} ELSE Embeddings

\* the reply to the FAQ query, given the embedding e
FaqRepliesFor(c, e, o, universe) ==
    IF e # <<>> /\ o # "faq"
      THEN FaqReplies(universe, c.top_k_faq_candidates)
      ELSE {<<>>}

\* the reply to the global article query, given the FAQ reply fr
ArticleRepliesFor(c, e, o, fr, replies) ==
    IF e # <<>> /\ o \notin {"faq", "articles"} /\ gateway_query(fr).exc = "none"
      THEN { r \in replies : Len(r) <= c.top_k_articles_candidates }
      ELSE {<<>>}

\* the reply to the block-filtered query, when the articles init are expanded
BlockRepliesFor(c, o, wanted, init) ==
    IF wanted /\ o # "block" /\ expansion_runs(init)
      THEN BlockReplies(anchor_block_id(init), pool_k(c))
      ELSE {<<>>}

\* the answer of the embeddings API to expand_articles, called for a decision
\* for the articles
ReEmbeddingsFor(a) == IF a.kind = "article" THEN ReEmbeddings ELSE {<<>>}


----------------------------------------------------------------------------
(* Inputs of the context builder *)

\* RAGConfig values for the context: the defaults, a context of 30 characters,
\* none at all, a block-context limit of 0, and small list caps
ContextConfigs ==
    { DefaultConfig,
      [DefaultConfig EXCEPT !.max_context_chars = 30],
      [DefaultConfig EXCEPT !.max_context_chars = 0],
      [DefaultConfig EXCEPT !.top_k_articles_block_context = 0],
      [DefaultConfig EXCEPT !.top_k_articles_block_context = 2, !.top_k_faqs = 1] }

\* FAQ items as _to_item builds them: with and without question, with an
\* answer, an answer that ends in a blank, and no answer
FaqItems ==
    { to_item("faq", [score |-> 80,
                      metadata |-> [EmptyMeta EXCEPT !.faq_id = "f1",
                                                     !.question = qn, !.answer = an]]) :
        qn \in {None, "q"}, an \in {None, "t", "t "} }

\* article items: the chunks of the article pool, and a chunk with title and role
ArticleItems ==
    { to_item("article", [score |-> 80, metadata |-> m]) : m \in ArticleMetas \cup ChunkMetas }
    \cup { to_item("article",
                   [score |-> 80,
                    metadata |-> [Chunk("a2", "1", "b1") EXCEPT !.titulo = "t",
                                                               !.chunk_role = "q"]]) }

\* a block of n chunks of a1 handed over from the last index to the first
BlockChunks(n) ==
    [i \in 1..n |->
        to_item("article",
                [score |-> 80,
                 metadata |-> Chunk("a1", IF i % 2 = 0 THEN "0" ELSE "1", "b1")])]

\* the lists handed to build_articles
ArticleLists ==
    SeqsUpTo(ArticleItems, MaxContextItems)
    \cup { BlockChunks(n) : n \in 1..MaxBlockChunks }

----------------------------------------------------------------------------
(* Inputs of handle_messages *)

User(content) == [role |-> "user", content |-> content]
Bot(content) == [role |-> "assistant", content |-> content]

\* the messages of a request: none, a first question that names a screen, a
\* question followed by a blank message, and after an answer of the bot a
\* short question and a question that names a screen
Conversations ==
    { <<>>,
      <<User(<<"la", "Pantalla", "inicio">>)>>,
      <<User(<<"como", "exporto">>), User(<<" ">>)>>,
      <<User(<<"hola">>), Bot(<<"r">>), User(<<"como", "exporto">>)>>,
      <<User(<<"hola">>), Bot(<<"r">>), User(<<"la", "Pantalla", "inicio">>)>> }

\* the state the caller hands back: none, or the one of an earlier turn
States == { <<>>, <<[key |-> "last_bot", value |-> <<"r">>]>> }

\* a state that holds a topic, a key of the caller's own and a screen
KeptState ==
    << [key |-> "topic_question", value |-> <<"hola">>],
       [key |-> "ticket", value |-> <<"r">>],
       [key |-> "screen_hint", value |-> <<"vieja">>] >>

\* the requests: every conversation with each of the states, and the
\* question that names no topic with the state that holds one
Turns ==
    (Conversations \X States)
       \cup { << <<User(<<"como", "exporto">>), User(<<" ">>)>>, KeptState >> }

\* FAQ matches of a request: a FAQ, a weaker one, and one without faq_id
ServiceFaqMatches ==
    { Match(Float(80), Faq("f2")), Match(Float(50), Faq("f1")),
      Match(Float(80), Faq(None)) }

\* what the judge may answer: a failure, text without JSON, broken JSON, an
\* empty selection, known ids (one padded, one empty), and an unknown id
JudgeOutputs ==
    { JudgeOutput("raises", <<>>), JudgeOutput("no_json", <<>>),
      JudgeOutput("bad_json", <<>>), JudgeOutput("object", <<>>),
      JudgeOutput("object", <<"f2">>), JudgeOutput("object", <<" f1", "">>),
      JudgeOutput("object", <<"zz">>) }

LlmReplies == { Reply(<<"r">>), LlmFails }

RewriterModes == {"answers", "malformed", "raises"}

\* what the index answers to the article query of a request: nothing, a chunk
\* of block b1, a weaker chunk of block b2 ahead of it, a chunk without
\* block_id ahead of a weaker one of b1, two chunks of equal score, and a
\* chunk below the minimum score
ServiceArticleReplies ==
    { <<>>,
      << Match(Float(80), Chunk("a1", "1", "b1")) >>,
      << Match(Float(62), Chunk("a2", "0", "b2")),
         Match(Float(80), Chunk("a1", "1", "b1")) >>,
      << Match(Float(80), Chunk("a1", "0", None)),
         Match(Float(62), Chunk("a1", "0", "b1")) >>,
      << Match(Float(80), Chunk("a2", "0", "b2")),
         Match(Float(80), Chunk("a1", "1", "b1")) >>,
      << Match(Float(15), Chunk("a1", "1", "b1")) >> }

\* the configurations of the service: the defaults, and final cuts of one
ServiceConfigs ==
    { DefaultConfig,
      [DefaultConfig EXCEPT !.top_k_faq_final = 1, !.top_k_articles_final = 1] }

\* the request is a first turn: no answer of the bot in the state or messages
FirstTurn(msgs, st) ==
    /\ DictGet(st, "last_bot", <<>>) = <<>>
    /\ last_message(msgs, {"assistant", "bot"}) = <<>>

\* How far a request gets before the judge, the block query and the chat
\* model: the kind of source decided ("ended" when the request ended before)
\* and the lists retrieved
Asked(kind, fs, as) == [kind |-> kind, faqs |-> fs, arts |-> as]

asked_after_decide(res, dec) ==
    IF dec.exc # "none" THEN Asked("ended", <<>>, <<>>)
    ELSE Asked(dec.value.source_kind, res.faqs, res.arts)

asked_after_retrieve(c, q, res) ==
    IF res.exc # "none" THEN Asked("ended", <<>>, <<>>)
    ELSE asked_after_decide(res, decide(c, q, detect_language(q), res.faqs, res.arts))

asked(c, q, first, w) ==
    IF ~first THEN Asked("ended", <<>>, <<>>)
    ELSE asked_after_retrieve(c, q, retrieve(c, q, FALSE, w))

\* the answer of the judge, asked only about retrieved FAQs
JudgeOutputsFor(a) ==
    IF a.kind = "faq" /\ a.faqs # <<>> THEN JudgeOutputs ELSE {JudgeOutput("none", <<>>)}

\* the answer of the chat model, asked only when nothing failed before
LlmRepliesFor(o, j, a) ==
    IF /\ a.kind # "ended"
       /\ j.kind # "raises"
       /\ ~(a.kind = "article" /\ o = "block" /\ expansion_runs(a.arts))
      THEN LlmReplies ELSE {NoReply}

----------------------------------------------------------------------------
(* The request pipeline *)

\* the components are built with one of the configurations cs
Start(cs) ==
    /\ cfg \in cs
    /\ pc = "idle"
    /\ question = <<>>
    /\ lang = "es"
    /\ faqs = <<>>
    /\ arts = <<>>
    /\ decision = NoDecision
    /\ exc = "none"
    /\ initial = <<>>
    /\ raw = <<>>
    /\ expanded = <<>>
    /\ expand = FALSE
    /\ world = NoWorld
    /\ queries = <<>>
    /\ rendered = <<>>
    /\ context = <<>>
    /\ messages = <<>>
    /\ state_in = <<>>
    /\ selected = <<>>
    /\ answer = <<>>
    /\ state = <<>>
    /\ calls = <<>>
    /\ requests = <<>>
    /\ where = <<>>
    /\ frames = <<>>
    /\ results = <<>>

Init == Start(Configs)

\* one call of PolicyDecider.decide
Decide ==
    /\ pc = "idle"
    /\ \E q \in Questions, lg \in Langs,
          fs \in Candidates("faq"), as \in Candidates("article") :
          LET r == decide(cfg, q, lg, fs, as)
          IN  /\ question' = q
              /\ lang' = lg
              /\ faqs' = fs
              /\ arts' = as
              /\ decision' = IF r.exc = "none" THEN r.value ELSE NoDecision
              /\ exc' = r.exc
              /\ pc' = IF r.exc = "none" THEN "decided" ELSE "raised"
    /\ UNCHANGED <<cfg, initial, raw, expanded, expand, world, queries,
                   rendered, context,
                   messages, state_in, selected, answer, state, calls,
                   requests, where, frames, results>>

\* the caller consumes the outcome; the next request starts from scratch
Finish ==
    /\ pc # "idle"
    /\ pc' = "idle"
    /\ question' = <<>>
    /\ lang' = "es"
    /\ faqs' = <<>>
    /\ arts' = <<>>
    /\ decision' = NoDecision
    /\ exc' = "none"
    /\ initial' = <<>>
    /\ raw' = <<>>
    /\ expanded' = <<>>
    /\ expand' = FALSE
    /\ world' = NoWorld
    /\ queries' = <<>>
    /\ rendered' = <<>>
    /\ context' = <<>>
    /\ messages' = <<>>
    /\ state_in' = <<>>
    /\ selected' = <<>>
    /\ answer' = <<>>
    /\ state' = <<>>
    /\ calls' = <<>>
    /\ UNCHANGED <<requests, where, frames, results>>
    /\ UNCHANGED cfg

NextDecide == Decide \/ Finish

SpecDecide == Init /\ [][NextDecide]_vars

\* one call of Retriever._expand_articles_same_block
Expand ==
    /\ pc = "idle"
    /\ \E init \in InitialLists :
         \E reply \in ( IF expansion_runs(init)
                          THEN Replies(anchor_block_id(init), pool_k(cfg))
                          ELSE {<<>>} ) :
            /\ initial' = init
            /\ raw' = reply
            /\ expanded' = expand_articles_same_block(cfg, init, reply)
            /\ pc' = "expanded"
    /\ UNCHANGED <<cfg, question, lang, faqs, arts, decision, exc,
                   expand, world, queries, rendered, context,
                   messages, state_in, selected, answer, state, calls,
                   requests, where, frames, results>>

\* one call of _expand_articles_same_block on the chunks of one block
ExpandChunks ==
    /\ pc = "idle"
    /\ \E init \in InitialListsOf(ChunkRecords) :
         \E reply \in ( IF expansion_runs(init)
                          THEN RepliesOf(ChunkRecords, anchor_block_id(init), pool_k(cfg))
                          ELSE {<<>>} ) :
            /\ initial' = init
            /\ raw' = reply
            /\ expanded' = expand_articles_same_block(cfg, init, reply)
            /\ pc' = "expanded"
    /\ UNCHANGED <<cfg, question, lang, faqs, arts, decision, exc,
                   expand, world, queries, rendered, context,
                   messages, state_in, selected, answer, state, calls,
                   requests, where, frames, results>>

NextExpand == Expand \/ Finish

SpecExpand == Init /\ [][NextExpand]_vars

NextChunks == ExpandChunks \/ Finish

SpecChunks == Init /\ [][NextChunks]_vars

\* one call of Retriever.retrieve
Retrieve ==
    /\ pc = "idle"
    /\ \E q \in Queries, x \in BOOLEAN, o \in Outages :
         \E e \in EmbeddingsFor(q) :
         \E fr \in FaqRepliesFor(cfg, e, o, FaqMatches) :
         \E ar \in ArticleRepliesFor(cfg, e, o, fr, ArticleReplies(cfg.top_k_articles_candidates)) :
         \E br \in BlockRepliesFor(cfg, o, x, articles_of(ar)) :
            LET w == [NoWorld EXCEPT !.emb = e, !.outage = o, !.faq = fr,
                                     !.art = ar, !.block = br]
                r == retrieve(cfg, q, x, w)
            IN  /\ question' = q
                /\ expand' = x
                /\ world' = w
                /\ faqs' = r.faqs
                /\ arts' = r.arts
                /\ queries' = r.queries
                /\ exc' = r.exc
                /\ pc' = IF r.exc = "none" THEN "retrieved" ELSE "raised"
    /\ UNCHANGED <<cfg, lang, decision, initial, raw, expanded, rendered, context,
                   messages, state_in, selected, answer, state, calls,
                   requests, where, frames, results>>

NextRetrieve == Retrieve \/ Finish

\* one call of ContextBuilder.build_faqs
BuildFaqs ==
    /\ pc = "idle"
    /\ \E fs \in SeqsUpTo(FaqItems, MaxContextItems) :
          /\ faqs' = fs
          /\ rendered' = faqs_rendered(cfg, fs)
          /\ context' = build_faqs(cfg, fs)
    /\ pc' = "built_faqs"
    /\ UNCHANGED <<cfg, question, lang, arts, decision, exc, initial, raw, expanded,
                   expand, world, queries,
                   messages, state_in, selected, answer, state, calls,
                   requests, where, frames, results>>

\* one call of ContextBuilder.build_articles
BuildArticles ==
    /\ pc = "idle"
    /\ \E as \in ArticleLists :
          /\ arts' = as
          /\ rendered' = articles_rendered(cfg, as)
          /\ context' = build_articles(cfg, as)
    /\ pc' = "built_articles"
    /\ UNCHANGED <<cfg, question, lang, faqs, decision, exc, initial, raw, expanded,
                   expand, world, queries,
                   messages, state_in, selected, answer, state, calls,
                   requests, where, frames, results>>

\* a request of handle_messages whose first answers are in w0; a tells how
\* far it gets.  The service fails a query the request issues: the outage of
\* a block query nobody issues is the request without outage.
Request(msgs, st, o, w0, a) ==
    \E e2 \in ReEmbeddingsFor(a) :
    /\ o = "block" => (e2 # <<>> /\ expansion_runs(a.arts))
    /\ \E j \in JudgeOutputsFor(a) :
      \E br \in BlockRepliesFor(cfg, o, e2 # <<>>, a.arts) :
      \E l \in LlmRepliesFor(o, j, a) :
            LET w == [w0 EXCEPT !.emb2 = e2, !.judge = j, !.block = br, !.llm = l]
                r == handle_messages(cfg, msgs, st, w)
            IN  /\ messages' = msgs
                /\ state_in' = st
                /\ world' = w
                /\ question' = r.question
                /\ lang' = r.lang
                /\ faqs' = r.faqs
                /\ arts' = r.arts
                /\ decision' = r.decision
                /\ selected' = r.selected
                /\ expanded' = r.expanded
                /\ context' = r.context
                /\ answer' = r.answer
                /\ state' = r.state
                /\ calls' = r.calls
                /\ queries' = r.queries
                /\ exc' = r.exc
                /\ pc' = IF r.exc = "none" THEN "answered" ELSE "raised"

\* the first answers of the collaborators to a request
FirstAnswers(e, o, fr, ar, m) ==
    [NoWorld EXCEPT !.emb = e, !.outage = o, !.faq = fr, !.art = ar, !.rewriter = m]

\* a request with the messages msgs and the state st while the index has
\* the outage o
Turn(msgs, st, o) ==
    \E m \in (IF FirstTurn(msgs, st) THEN {"none"} ELSE RewriterModes) :
    \E e \in (IF FirstTurn(msgs, st)
                THEN EmbeddingsFor(last_message(msgs, {"user"})) ELSE {<<>>}) :
    (o # "none" => e # <<>>) /\
    \E fr \in FaqRepliesFor(cfg, e, o, ServiceFaqMatches) :
    \E ar \in ArticleRepliesFor(cfg, e, o, fr, ServiceArticleReplies) :
       Request(msgs, st, o, FirstAnswers(e, o, fr, ar, m),
               asked(cfg, last_message(msgs, {"user"}), FirstTurn(msgs, st),
                     FirstAnswers(e, o, fr, ar, m)))

\* one call of ChatbotService.handle_messages
HandleMessages ==
    /\ pc = "idle"
    /\ \E t \in Turns, o \in Outages : Turn(t[1], t[2], o)
    /\ UNCHANGED <<cfg, initial, raw, expand, rendered, requests, where, frames, results>>

----------------------------------------------------------------------------
(* Concurrent calls of handle_messages on one ChatbotService *)

\* the calls in flight
Procs == 1..MaxCalls

\* a request: the arguments of the call and what the collaborators answer it
Req(msgs, st, w) == [msgs |-> msgs, st |-> st, w |-> w]

\* the requests that may arrive together: one answered from a FAQ, one
\* answered from an expanded article on a state of the caller, one whose
\* article query fails after its FAQ query was answered, one that nothing
\* matches, and one that is not a first turn
ConcurrentRequests ==
    { Req(<<User(<<"la", "Pantalla", "inicio">>)>>, <<>>,
          [NoWorld EXCEPT !.emb = <<3, 4>>,
                          !.faq = <<Match(Float(80), Faq("f2"))>>,
                          !.judge = JudgeOutput("object", <<"f2">>),
                          !.llm = Reply(<<"r">>)]),
      Req(<<User(<<"como", "exporto">>), User(<<" ">>)>>, KeptState,
          [NoWorld EXCEPT !.emb = <<3, 4>>, !.emb2 = <<3, 5>>,
                          !.art = <<Match(Float(80), Chunk("a1", "1", "b1"))>>,
                          !.block = <<Match(Float(62), Chunk("a1", "0", "b1"))>>,
                          !.llm = Reply(<<"r">>)]),
      Req(<<User(<<"como", "exporto">>)>>, <<>>,
          [NoWorld EXCEPT !.emb = <<3, 4>>, !.outage = "articles",
                          !.faq = <<Match(Float(50), Faq("f1"))>>]),
      Req(<<User(<<"hola">>)>>, <<>>,
          [NoWorld EXCEPT !.emb = <<3, 4>>, !.llm = Reply(<<"r">>)]),
      Req(<<User(<<"hola">>), Bot(<<"r">>), User(<<"como", "exporto">>)>>, <<>>,
          [NoWorld EXCEPT !.rewriter = "answers"]) }

\* the local variables of a call of handle_messages, before it has run
NoFrame ==
    [ q |-> <<>>, lg |-> "es", s |-> <<>>, faqs |-> <<>>,
      res |-> Retrieved("none", <<>>, <<>>, <<>>), dec |-> Return(NoDecision),
      jr |-> Return(<<>>), ex |-> [exc |-> "none", items |-> <<>>, queries |-> <<>>] ]

\* every call keeps its local variables in one frame, were they attributes
\* of the service
frame_of_service(i) == 1

\* every call of handle_messages has a frame of local variables of its own
frame(i) == i

\* what a step of a call leaves: its frame, its next position and its outcome
Step(f, to, out) == [frame |-> f, at |-> to, out |-> out]

\* handle_messages up to is_first_turn: the state is copied and updated
begin_step(rq, f) ==
    IF DictGet(updated_state(rq.msgs, rq.st), "last_bot", <<>>) # <<>>
      THEN Step(f, "done",
                rewritten_turn(last_message(rq.msgs, {"user"}),
                               updated_state(rq.msgs, rq.st), rq.w))
      ELSE Step([f EXCEPT !.q = last_message(rq.msgs, {"user"}),
                          !.lg = detect_language(last_message(rq.msgs, {"user"})),
                          !.s = updated_state(rq.msgs, rq.st)],
                "faqs", NoOutcome)

\* retrieve: the embedding and the FAQ query
faq_query_step(c, rq, f) ==
    IF no_embedding(embed_one(f.q, rq.w.emb))
      THEN Step([f EXCEPT !.res = Retrieved("none", <<>>, <<>>, <<>>)],
                "decide", NoOutcome)
    ELSE IF index_query(rq.w.faq, rq.w.outage = "faq").exc # "none"
      THEN Step(f, "done",
                Failure(index_query(rq.w.faq, rq.w.outage = "faq").exc,
                        <<IndexQuery(c.namespace_faqs, embed_one(f.q, rq.w.emb),
                                     c.top_k_faq_candidates, None)>>,
                        <<CallTo("retriever")>>))
    ELSE Step([f EXCEPT !.faqs = sort_by_score(to_items("faq",
                                    index_query(rq.w.faq, FALSE).value))],
              "articles", NoOutcome)

\* the index queries of retrieve(expand_articles=False)
retrieve_queries(c, emb) ==
    << IndexQuery(c.namespace_faqs, emb, c.top_k_faq_candidates, None),
       IndexQuery(c.namespace_articles, emb, c.top_k_articles_candidates, None) >>

\* retrieve: the article query, and the dict returned
article_query_step(c, rq, f) ==
    IF index_query(rq.w.art, rq.w.outage = "articles").exc # "none"
      THEN Step(f, "done",
                Failure(index_query(rq.w.art, rq.w.outage = "articles").exc,
                        retrieve_queries(c, embed_one(f.q, rq.w.emb)),
                        <<CallTo("retriever")>>))
    ELSE Step([f EXCEPT !.res =
                  Retrieved("none", f.faqs,
                            sort_by_score(to_items("article",
                                index_query(rq.w.art, FALSE).value)),
                            retrieve_queries(c, embed_one(f.q, rq.w.emb)))],
              "decide", NoOutcome)

\* decide on the lists retrieved
decide_step(c, rq, f) ==
    IF decide(c, f.q, f.lg, f.res.faqs, f.res.arts).exc # "none"
      THEN Step(f, "done",
                Failure(decide(c, f.q, f.lg, f.res.faqs, f.res.arts).exc,
                        f.res.queries, <<CallTo("retriever")>>))
      ELSE Step([f EXCEPT !.dec = decide(c, f.q, f.lg, f.res.faqs, f.res.arts)],
                "evidence", NoOutcome)

\* the judge is asked about retrieved FAQs, the articles are expanded
evidence_step(c, rq, f) ==
    IF f.dec.value.source_kind = "faq" /\ f.res.faqs # <<>>
      THEN Step([f EXCEPT !.jr = select(rq.w.judge)], "respond", NoOutcome)
    ELSE IF f.dec.value.source_kind = "article"
      THEN Step([f EXCEPT !.ex = expand_articles(c, f.q, f.res.arts, rq.w)],
                "respond", NoOutcome)
    ELSE Step(f, "respond", NoOutcome)

\* the context, the chat model, and the dict returned
respond_step(c, rq, f) ==
    Step(f, "done",
         IF f.dec.value.source_kind = "faq" /\ f.res.faqs # <<>>
           THEN answer_from_faqs(c, f.q, f.lg, f.s, rq.w, f.res, f.dec.value, f.jr)
         ELSE IF f.dec.value.source_kind = "article"
           THEN answer_from_articles(c, f.q, f.lg, f.s, rq.w, f.res, f.dec.value, f.ex)
         ELSE compose(c, f.q, f.lg, f.s, rq.w, f.res, f.dec.value, <<>>, <<>>,
                      f.res.queries, <<CallTo("retriever")>>))

\* the variables of the single request, which concurrent calls leave alone
single == <<cfg, question, lang, faqs, arts, decision, exc, initial, raw, expanded,
            expand, world, queries, rendered, context,
            messages, state_in, selected, answer, state, calls>>

\* two calls arrive at the service
Arrive ==
    /\ pc = "idle"
    /\ pc' = "concurrent"
    /\ requests' \in [Procs -> ConcurrentRequests]
    /\ where' = [i \in Procs |-> "begin"]
    /\ frames' = [i \in Procs |-> NoFrame]
    /\ results' = [i \in Procs |-> NoOutcome]
    /\ UNCHANGED single

\* call i took the step r
Took(i, r) ==
    /\ frames' = [frames EXCEPT ![frame(i)] = r.frame]
    /\ where' = [where EXCEPT ![i] = r.at]
    /\ results' = [results EXCEPT ![i] = r.out]
    /\ UNCHANGED <<pc, requests>>
    /\ UNCHANGED single

\* call i is at position p
At(i, p) == pc = "concurrent" /\ where[i] = p

Begin ==
    \E i \in Procs : At(i, "begin") /\ Took(i, begin_step(requests[i], frames[frame(i)]))

FaqQuery ==
    \E i \in Procs :
       At(i, "faqs") /\ Took(i, faq_query_step(cfg, requests[i], frames[frame(i)]))

ArticleQuery ==
    \E i \in Procs :
       At(i, "articles") /\ Took(i, article_query_step(cfg, requests[i], frames[frame(i)]))

DecideStep ==
    \E i \in Procs :
       At(i, "decide") /\ Took(i, decide_step(cfg, requests[i], frames[frame(i)]))

Evidence ==
    \E i \in Procs :
       At(i, "evidence") /\ Took(i, evidence_step(cfg, requests[i], frames[frame(i)]))

Respond ==
    \E i \in Procs :
       At(i, "respond") /\ Took(i, respond_step(cfg, requests[i], frames[frame(i)]))

NextConcurrent ==
    Arrive \/ Begin \/ FaqQuery \/ ArticleQuery \/ DecideStep \/ Evidence \/ Respond

SpecConcurrent == Start({DefaultConfig}) /\ [][NextConcurrent]_vars

NextService == HandleMessages \/ Finish

SpecService == Start(ServiceConfigs) /\ [][NextService]_vars

\* retrieve called on its own, and the requests of handle_messages
NextIndex == Retrieve \/ HandleMessages \/ Finish

SpecIndex == Start(ServiceConfigs) /\ [][NextIndex]_vars

NextContext == BuildFaqs \/ BuildArticles \/ Finish

SpecContext == Start(ContextConfigs) /\ [][NextContext]_vars

SpecRetrieve == Start(ServiceConfigs) /\ [][NextRetrieve]_vars

----------------------------------------------------------------------------
(* Claims about PolicyDecider.decide *)

\* a call of decide has ended, by a return or by an exception
Called == pc \in {"decided", "raised"}

\* the top scores decide reads: 0 for an empty list
FaqScore == IF faqs = <<>> THEN 0 ELSE faqs[1].score
ArtScore == IF arts = <<>> THEN 0 ELSE arts[1].score

BothLow == FaqScore <= 20 /\ ArtScore <= 20

\* decide returned an "answer" Decision naming the pool kind
Answers(kind) ==
    /\ pc = "decided"
    /\ decision.action = "answer"
    /\ decision.source_kind = kind

\* the timestamp is valid and at least the staleness window in the past
StaleStamp(item) ==
    /\ item.meta.updatedAt.kind \in {"aware", "naive"}
    /\ item.meta.updatedAt.age >= cfg.stale_days_warn

\* C1: whenever the top FAQ score and the top article score (0 for an empty
\* list) are both <= 0.20, decide returns clarify / none with reason
\* both_below_min_score and no caution note, for every question and language.
C1_ClarifyWhenBothLow ==
    (Called /\ BothLow) =>
        /\ pc = "decided"
        /\ decision = Decision("clarify", "both_below_min_score", "none", None)

\* C1 witness: top FAQ 0.15 against top article 0.10 was decided as clarify
C1_Witness ==
    /\ pc = "decided"
    /\ faqs # <<>> /\ arts # <<>>
    /\ FaqScore = 15 /\ ArtScore = 10
    /\ decision.action = "clarify"

\* C2: when rule 1 does not apply and the top article score is >= 0.78,
\* decide returns answer / article whatever the top FAQ score is.
C2_ArticleOverrideFirst ==
    (Called /\ ~BothLow /\ arts # <<>> /\ ArtScore >= 78) => Answers("article")

\* C3: for every question, when the top article score is below 0.78 (or there
\* is no article) and the top FAQ score is >= 0.70, decide returns answer / faq.
C3_FaqOverride ==
    (Called /\ (arts = <<>> \/ ArtScore < 78) /\ faqs # <<>> /\ FaqScore >= 70)
        => Answers("faq")

\* C4: with the margin at 0.05, both lists non-empty and no earlier rule
\* matching, decide answers from the FAQ exactly when
\* faq_score >= article_score - margin, and from the article otherwise.
C4_MarginRule ==
    ( /\ Called
      /\ cfg.article_over_faq_margin = 5
      /\ faqs # <<>> /\ arts # <<>>
      /\ ~BothLow /\ ArtScore < 78 /\ FaqScore < 70 )
        => IF FaqScore >= ArtScore - 5 THEN Answers("faq") ELSE Answers("article")

\* C5: when exactly one list is non-empty and its top score is above 0.20,
\* decide returns answer with the pool of that list, for every question.
C5_OnlyOnePool ==
    /\ (Called /\ faqs # <<>> /\ arts = <<>> /\ FaqScore > 20) => Answers("faq")
    /\ (Called /\ faqs = <<>> /\ arts # <<>> /\ ArtScore > 20) => Answers("article")

\* C6: decide is total and well-formed: every call returns one Decision
\* without raising, with a non-empty reason, action answer or clarify,
\* source_kind none exactly for clarify, and a pool kind only when that
\* pool's list is non-empty.
C6_TotalWellFormed ==
    Called =>
        /\ pc = "decided"
        /\ exc = "none"
        /\ decision # NoDecision
        /\ decision.reason # ""
        /\ decision.action \in {"answer", "clarify"}
        /\ (decision.source_kind = "none") <=> (decision.action = "clarify")
        /\ decision.source_kind \in {"faq", "article", "none"}
        /\ decision.source_kind = "faq" => faqs # <<>>
        /\ decision.source_kind = "article" => arts # <<>>

\* C7: whenever decide answers from a candidate, the Decision carries a caution
\* note exactly when that candidate's timestamp is valid and at least the
\* staleness window in the past; a younger, unparseable or absent timestamp
\* gives a null note.
C7_CautionIffStale ==
    (Called /\ ~BothLow) =>
        /\ pc = "decided"
        /\ decision.source_kind = "faq" =>
             ((decision.caution_note # None) <=> StaleStamp(faqs[1]))
        /\ decision.source_kind = "article" =>
             ((decision.caution_note # None) <=> StaleStamp(arts[1]))

\* C8: the margin decide applies is the one carried by the RAGConfig it was
\* built with: under rule 4 a returned Decision is faq exactly when
\* faq_score >= article_score - cfg.article_over_faq_margin.
C8_MarginFromConfig ==
    ( /\ pc = "decided"
      /\ faqs # <<>> /\ arts # <<>>
      /\ ~BothLow /\ ArtScore < 78 /\ FaqScore < 70 )
        => ( (decision.source_kind = "faq")
               <=> (FaqScore >= ArtScore - cfg.article_over_faq_margin) )

----------------------------------------------------------------------------
(* Claims about Retriever._expand_articles_same_block *)

\* block expansion ran: the call returned and the block-filtered query was issued
Expanded == pc = "expanded" /\ expansion_runs(initial)

InList(x, seq) == \E i \in 1..Len(seq) : seq[i] = x

\* C9: whenever block expansion runs, the anchor (the top candidate of the
\* initial list, with its own score) is in the list returned, whatever the
\* block-filtered query answered and after the cut to the cap.
C9_AnchorKept == Expanded => InList(initial[1], expanded)

\* C9 witness: the reply held a record with the anchor's composite key and
\* another score, and the anchor is in the list returned
C9_Witness ==
    /\ Expanded
    /\ \E j \in 1..Len(raw) :
          /\ article_key(to_item("article", raw[j])) = article_key(initial[1])
          /\ raw[j].score # initial[1].score
    /\ InList(initial[1], expanded)

\* C10: the list block expansion returns never holds more items than the
\* configured block-context cap, top_k_articles_block_context.
C10_WithinBlockContextCap ==
    Expanded => Len(expanded) <= cfg.top_k_articles_block_context

\* the chunk carries a chunk_index that is an integer
Indexed(it) ==
    it.meta.chunk_index # None /\ strip(it.meta.chunk_index) \in IntTexts

\* x belongs strictly before y in ascending (article_id, chunk_index) order,
\* a chunk without an integer chunk_index after the indexed ones of its article
ChunkBefore(x, y) ==
    LET ax == safe_str(x.meta.article_id)
        ay == safe_str(y.meta.article_id)
    IN  \/ StrRank(ax) < StrRank(ay)
        \/ /\ ax = ay
           /\ Indexed(x)
           /\ \/ ~Indexed(y)
              \/ int(strip(x.meta.chunk_index)) < int(strip(y.meta.chunk_index))

InOrder(items) ==
    \A i, j \in 1..Len(items) : i < j => ~ChunkBefore(items[j], items[i])

\* C11: after block expansion the list returned is in ascending
\* (article_id, chunk_index) order, and a chunk whose chunk_index is missing
\* or no integer comes after every indexed chunk of the same article.
C11_SortedByArticleAndIndex == Expanded => InOrder(expanded)

\* C11 witness: the merge was out of order, and the list returned holds an
\* indexed chunk ahead of an unindexed chunk of the same article
C11_Witness ==
    /\ Expanded
    /\ ~InOrder(merge_block(initial, raw))
    /\ \E i, j \in 1..Len(expanded) :
          /\ i < j
          /\ expanded[i].meta.article_id = expanded[j].meta.article_id
          /\ Indexed(expanded[i]) /\ ~Indexed(expanded[j])

----------------------------------------------------------------------------
(* Claims about Retriever.retrieve *)

\* retrieve returned its two lists
RetrieveReturned == pc = "retrieved"

\* C12: the FAQ list retrieve returns is in non-increasing score order, and
\* FAQ candidates with equal score keep the relative order in which the index
\* service returned them.
C12_FaqsByScoreStable ==
    RetrieveReturned =>
        /\ \A i \in 1..(Len(faqs) - 1) : faqs[i].score >= faqs[i + 1].score
        /\ faqs # <<>> =>
             \E f \in [1..Len(faqs) -> 1..Len(world.faq)] :
                /\ \A i \in 1..Len(faqs) :
                      faqs[i] = to_item("faq", gateway_query(world.faq).value[f[i]])
                /\ \A i, j \in 1..Len(faqs) :
                      i < j => /\ f[i] # f[j]
                               /\ faqs[i].score = faqs[j].score => f[i] < f[j]

\* C12 witness: the index answered two different FAQs with the same score,
\* and retrieve returned them in that order
C12_Witness ==
    /\ RetrieveReturned
    /\ Len(world.faq) = 2
    /\ world.faq[1].metadata # world.faq[2].metadata
    /\ Len(faqs) = 2
    /\ faqs[1].score = faqs[2].score
    /\ faqs[1].meta = world.faq[1].metadata

\* a call of retrieve has ended, by a return or by an exception
RetrieveCalled == pc \in {"retrieved", "raised"}

\* C14: retrieve called with an empty or whitespace-only query, or answered
\* an empty vector by the embedder, returns empty FAQ and article lists
\* without raising and without issuing any index query.
C14_NoEmbeddingNoQuery ==
    (RetrieveCalled /\ (blank(question) \/ world.emb = <<>>)) =>
        /\ pc = "retrieved"
        /\ exc = "none"
        /\ faqs = <<>> /\ arts = <<>>
        /\ queries = <<>>

\* C14 witness: a question got an empty vector while the index would have
\* failed the FAQ query, and retrieve returned without a query
C14_Witness ==
    /\ pc = "retrieved"
    /\ ~blank(question)
    /\ world.emb = <<>>
    /\ world.outage = "faq"
    /\ queries = <<>>

\* C15: every candidate retrieve produces has score >= 0, and a match whose
\* score is absent, null or not a number gives a candidate with score 0.0
\* instead of raising.
C15_ScoresNeverNegativeNorRaise ==
    RetrieveCalled =>
        /\ exc # "ValueError"
        /\ \A i \in 1..Len(faqs) : faqs[i].score >= 0
        /\ \A i \in 1..Len(arts) : arts[i].score >= 0

\* the composite key of a candidate: (article_id or faq_id, chunk_index,
\* block_id, chunk_role), each as stripped text
CompositeKey(it) ==
    << strip(safe_str(IF it.source = "faq" THEN it.meta.faq_id ELSE it.meta.article_id)),
       strip(safe_str(it.meta.chunk_index)),
       strip(safe_str(it.meta.block_id)),
       strip(safe_str(it.meta.chunk_role)) >>

UniqueByKey(items) ==
    \A i, j \in 1..Len(items) : i # j => CompositeKey(items[i]) # CompositeKey(items[j])

\* C21: in the result of one retrieve call no two candidates of the same
\* source kind share the composite key (article_id or faq_id, chunk_index,
\* block_id, chunk_role); the merged set of block expansion holds one
\* candidate per key.
C21_UniqueByCompositeKey ==
    RetrieveReturned => (UniqueByKey(faqs) /\ UniqueByKey(arts))

----------------------------------------------------------------------------
(* Claims about the ContextBuilder *)

Built == pc \in {"built_faqs", "built_articles"}

\* C17: build_faqs and build_articles return the empty string for an empty
\* candidate list, and for every candidate list a string of at most
\* max_context_chars characters.
C17_EmptyAndBounded ==
    Built =>
        /\ Len(context) <= cfg.max_context_chars
        /\ (pc = "built_faqs" /\ faqs = <<>>) => context = <<>>
        /\ (pc = "built_articles" /\ arts = <<>>) => context = <<>>

\* C17 witness: a block of articles was rendered into exactly the 30
\* characters the configuration allows
C17_Witness ==
    /\ pc = "built_articles"
    /\ Len(arts) >= 2
    /\ cfg.max_context_chars = 30
    /\ Len(context) = 30

\* the limit the claim states: the configured one, 15 where none is configured
\* (the environment sets none, or sets 0)
ClaimedBlockLimit ==
    IF cfg.top_k_articles_block_context
         \in {0, DefaultConfig.top_k_articles_block_context}
      THEN 15
      ELSE cfg.top_k_articles_block_context

\* C18 as stated: build_articles renders its items in ascending
\* (article_id, chunk_index) order whatever the order of its input, and
\* renders at most the configured block-context limit of items, 15 by default.
C18_SortedWithinLimitDefault15 ==
    pc = "built_articles" =>
        /\ InOrder(rendered)
        /\ Len(rendered) <= ClaimedBlockLimit

\* C18 amended: build_articles renders its items in ascending
\* (article_id, chunk_index) order whatever the order of its input, and
\* renders at most top_k_articles_block_context items, which is 40 where the
\* environment sets none; 15 is the limit only when it is configured as 0.
C18_SortedWithinBlockLimit ==
    pc = "built_articles" =>
        /\ InOrder(rendered)
        /\ cfg.top_k_articles_block_context >= 1 =>
              Len(rendered) <= cfg.top_k_articles_block_context
        /\ cfg.top_k_articles_block_context = 0 => Len(rendered) <= 15

\* C18 witness: a list out of order and longer than the limit was rendered
\* in order and cut
C18_Witness ==
    /\ pc = "built_articles"
    /\ ~InOrder(arts)
    /\ rendered # <<>>
    /\ InOrder(rendered)
    /\ Len(rendered) < Len(arts)

----------------------------------------------------------------------------
(* Claims about the index queries and ChatbotService.handle_messages *)

\* a call of retrieve or of handle_messages has ended
RequestEnded == pc \in {"retrieved", "answered", "raised"}

\* the index query the service fails was issued: the FAQ query is the first
\* of a request, the initial article query the second, the block query the third
OutageHit ==
    \/ world.outage = "faq" /\ Len(queries) >= 1
    \/ world.outage = "articles" /\ Len(queries) >= 2
    \/ world.outage = "block" /\ Len(queries) >= 3

\* C13: if any index query of a request (FAQ query, initial article query or
\* block-expansion query) fails, the failure propagates to the caller of
\* retrieve or handle_messages: no candidate lists, no decision and no answer
\* are returned, and the failure is never turned into an empty result.
C13_IndexFailurePropagates ==
    (RequestEnded /\ OutageHit) =>
        /\ pc = "raised"
        /\ exc = "IndexQueryError"
        /\ faqs = <<>> /\ arts = <<>> /\ expanded = <<>>
        /\ decision = NoDecision
        /\ answer = <<>>

\* C13 witness: a request of handle_messages issued the FAQ query and the
\* article query, decided for the articles, and failed in the block query
C13_Witness ==
    /\ pc = "raised"
    /\ messages # <<>>
    /\ world.outage = "block"
    /\ Len(queries) = 3
    /\ queries[3].flt = "b1"

\* the turn is not the first of its conversation: the rewriter is called
RewriterCalled ==
    /\ pc \in {"answered", "raised"}
    /\ messages # <<>>
    /\ ~FirstTurn(messages, state_in)

\* C19: if the rewriter fails or returns malformed output on a turn,
\* handle_messages does not propagate the failure: it uses the raw last user
\* message as the effective query for retrieval and still produces an answer.
C19_RewriterFailureRecovered ==
    (RewriterCalled /\ world.rewriter \in {"raises", "malformed"}) =>
        /\ pc = "answered"
        /\ exc = "none"
        /\ question = last_message(messages, {"user"})

\* the judge was asked about the retrieved FAQs and its answer was used
Judged ==
    /\ pc = "answered"
    /\ decision.source_kind = "faq"
    /\ faqs # <<>>

\* the judge's output is malformed, or none of the ids it selects (there may
\* be none) is the faq_id of a retrieved FAQ
NothingSelected ==
    \/ world.judge.kind \in {"no_json", "bad_json"}
    \/ /\ world.judge.kind = "object"
       /\ \A i \in 1..Len(world.judge.ids), k \in 1..Len(faqs) :
             strip(world.judge.ids[i]) = ""
             \/ strip(world.judge.ids[i]) # strip(safe_str(faqs[k].meta.faq_id))

\* C20: when the decision selects FAQ and the judge returns malformed output
\* or a selection that matches no retrieved FAQ (an empty one included), the
\* FAQ evidence of the context is the first top_k_faq_final retrieved FAQs in
\* retrieval order, and it is never empty when FAQs were retrieved.
C20_JudgeFallback ==
    (Judged /\ NothingSelected) =>
        /\ selected = Head_n(faqs, cfg.top_k_faq_final)
        /\ selected # <<>>
        /\ context = build_faqs(cfg, selected)

\* C20 witness: two FAQs were retrieved, the judge selected an id none of
\* them has, and the final cut of one kept the first
C20_Witness ==
    /\ Judged
    /\ world.judge = JudgeOutput("object", <<"zz">>)
    /\ Len(faqs) = 2
    /\ cfg.top_k_faq_final = 1
    /\ selected = <<faqs[1]>>

\* block expansion ran in a request: the decision was for the articles and
\* expand_articles got a vector for the question
ExpansionCalled ==
    /\ pc = "answered"
    /\ decision.source_kind = "article"
    /\ world.emb2 # <<>>
    /\ arts # <<>>

\* C22: if the anchor (the top-scoring initial article candidate) has no
\* block_id, block expansion issues no block-filtered query and returns the
\* first top_k_articles_final candidates of the score-sorted initial list,
\* unchanged and in the same order.
C22_NoBlockNoExpansion ==
    (ExpansionCalled /\ strip(safe_str(arts[1].meta.block_id)) = "") =>
        /\ \A i \in 1..Len(queries) : queries[i].flt = None
        /\ Len(queries) = 2
        /\ expanded = SubSeq(arts, 1, Min(Len(arts), cfg.top_k_articles_final))

\* C22 witness: two articles were retrieved, the better one without block_id,
\* and the final cut of one kept it alone
C22_Witness ==
    /\ ExpansionCalled
    /\ Len(arts) = 2
    /\ arts[1].meta.block_id = None
    /\ arts[2].meta.block_id = "b1"
    /\ cfg.top_k_articles_final = 1
    /\ expanded = <<arts[1]>>

\* the candidates of the reply to the initial article query
InitialArticles == to_items("article", gateway_query(world.art).value)

\* a top-scoring candidate of that reply has the block_id b
TopBlock(b) ==
    \E k \in 1..Len(InitialArticles) :
       /\ \A j \in 1..Len(InitialArticles) :
             InitialArticles[k].score >= InitialArticles[j].score
       /\ strip(safe_str(InitialArticles[k].meta.block_id)) = b

\* C23: within one request the block-filtered query is issued only after the
\* initial article query returned a non-empty result, its filter is the
\* block_id of the top-scoring candidate of that result, and it carries the
\* same embedding vector as the initial article query.
C23_BlockQueryAfterArticles ==
    RequestEnded =>
        \A i \in 1..Len(queries) :
           queries[i].flt # None =>
              /\ i = 3
              /\ queries[2].namespace = cfg.namespace_articles
              /\ queries[2].flt = None
              /\ InitialArticles # <<>>
              /\ TopBlock(queries[i].flt)
              /\ queries[i].vector = queries[2].vector

\* a call of handle_messages has ended, by a return or by an exception
TurnEnded == pc \in {"answered", "raised"}

\* the calls handle_messages made to the collaborator named to
CallsTo(to) == SelectSeq(calls, LAMBDA k : k.to = to)

\* C24: on a first turn the raw last user message is the effective query and
\* the rewriter is not called; on every later turn the rewriter is called,
\* and it is passed the previous answer and the topic only for a short or
\* deictic message without clear entities: for a fresh topic both are empty.
C24_RewriterOnLaterTurns ==
    TurnEnded =>
        IF FirstTurn(messages, state_in)
          THEN /\ CallsTo("rewriter") = <<>>
               /\ pc = "answered" => question = last_message(messages, {"user"})
          ELSE /\ Len(CallsTo("rewriter")) = 1
               /\ ~should_use_context(last_message(messages, {"user"})) =>
                     /\ CallsTo("rewriter")[1].last_bot = <<>>
                     /\ CallsTo("rewriter")[1].topic_question = <<>>

\* the value of key k in the dict d: <<v>>, and <<>> when d has no such key
ValueOf(d, k) == IF DictHas(d, k) THEN <<DictGet(d, k, <<>>)>> ELSE <<>>

\* C25: a turn sets state.topic_question, to the current user message, only
\* when that message carries a topic keyword; on every other turn
\* topic_question keeps the value it had before the turn.
C25_TopicKeptWithoutSignal ==
    pc = "answered" =>
        IF should_update_topic(last_message(messages, {"user"}))
          THEN ValueOf(state, "topic_question") = <<last_message(messages, {"user"})>>
          ELSE ValueOf(state, "topic_question") = ValueOf(state_in, "topic_question")

\* C25 witness: a question without topic keyword was answered and the state
\* handed in held a topic, which the state returned still holds
C25_Witness ==
    /\ pc = "answered"
    /\ last_message(messages, {"user"}) = <<"como", "exporto">>
    /\ ValueOf(state_in, "topic_question") = << <<"hola">> >>
    /\ ValueOf(state, "topic_question") = << <<"hola">> >>
    /\ ValueOf(state, "last_user") = << <<"como", "exporto">> >>

\* the keys of a dict
Keys(d) == { d[i].key : i \in 1..Len(d) }

\* the state returned differs from the one handed in at most in the keys ks
OnlyWrites(ks) ==
    \A k \in (Keys(state) \cup Keys(state_in)) \ ks :
       ValueOf(state, k) = ValueOf(state_in, k)

\* the state returned holds the current user message and the answer returned
LastTurnKept ==
    /\ ValueOf(state, "last_user") = <<last_message(messages, {"user"})>>
    /\ ValueOf(state, "last_bot") = <<answer>>

\* C26 as claimed: handle_messages writes only the state keys root_question,
\* topic_question, last_bot and last_user; every other key keeps its value and
\* none is added; after a completed turn last_user is the current user
\* message and last_bot the answer returned.
C26_OnlyFourKeys ==
    pc = "answered" =>
        /\ OnlyWrites({"root_question", "topic_question", "last_bot", "last_user"})
        /\ LastTurnKept

\* C26: handle_messages writes only the state keys root_question,
\* topic_question, last_bot, last_user and screen_hint; every other key keeps
\* its value and none is added; after a completed turn last_user is the
\* current user message and last_bot the answer returned.
C26_OnlyKnownKeys ==
    pc = "answered" =>
        /\ OnlyWrites({"root_question", "topic_question", "last_bot", "last_user",
                       "screen_hint"})
        /\ LastTurnKept

\* C26 witness: a turn was completed on a state that held a key of the
\* caller's own and a screen, and the state returned holds both unchanged
\* next to the question and the answer
C26_Witness ==
    /\ pc = "answered"
    /\ state_in = KeptState
    /\ ValueOf(state, "ticket") = << <<"r">> >>
    /\ ValueOf(state, "screen_hint") = << <<"vieja">> >>
    /\ ValueOf(state, "last_user") = << <<"como", "exporto">> >>
    /\ answer # <<>>
    /\ ValueOf(state, "last_bot") = <<answer>>

\* what call i returns, or raises, when it runs alone
Alone(i) == handle_messages(cfg, requests[i].msgs, requests[i].st, requests[i].w)

\* C27: concurrent calls of handle_messages share no mutable state: under
\* every interleaving each call returns the result and the state it returns
\* when run alone, also next to a call that failed during retrieval.
C27_CallsIsolated ==
    pc = "concurrent" =>
        \A i \in Procs : where[i] = "done" => results[i] = Alone(i)

\* C27 witness: the article query of one call failed after its FAQ query was
\* answered, and the other call, which began after the FAQs of the first
\* were in its frame, was answered from an article
C27_Witness ==
    /\ pc = "concurrent"
    /\ where[1] = "done" /\ where[2] = "done"
    /\ results[1].exc = "IndexQueryError"
    /\ Len(results[1].queries) = 2
    /\ frames[1].faqs # <<>>
    /\ results[2].exc = "none"
    /\ results[2].decision.source_kind = "article"
    /\ results[2].faqs = <<>>
    /\ ValueOf(results[2].state, "ticket") = << <<"r">> >>

\* every collaborator answered the request: no outage of the index, and no
\* failure of the judge, of the chat model or of the rewriter
CollaboratorsNormal ==
    /\ world.outage = "none"
    /\ world.judge.kind # "raises"
    /\ world.llm.kind # "raises"
    /\ world.rewriter \in {"none", "answers"}

\* C28: with every collaborator responding normally, handle_messages returns
\* a result holding answer, decision and state on every turn of a
\* conversation, the first and every later one alike.
C28_EveryTurnAnswered ==
    (TurnEnded /\ CollaboratorsNormal) =>
        /\ pc = "answered"
        /\ exc = "none"
        /\ decision # NoDecision
        /\ ValueOf(state, "last_bot") = <<answer>>

\* handle_messages decided for the articles and expanded a block
BlockExpanded ==
    /\ pc = "answered"
    /\ decision.source_kind = "article"
    /\ Len(queries) = 3

\* C29: the article candidate whose score decide evaluates is the
\* highest-scoring candidate of the initial article query, and when the
\* decision is article the block expanded for the context is the block of
\* that same candidate.
C29_AnchorIsDecidedCandidate ==
    (pc = "answered" /\ arts # <<>>) =>
        /\ \E k \in 1..Len(InitialArticles) : InitialArticles[k] = arts[1]
        /\ \A k \in 1..Len(InitialArticles) : arts[1].score >= InitialArticles[k].score
        /\ decision = decide(cfg, question, lang, faqs, arts).value
        /\ BlockExpanded =>
              /\ queries[3].flt = strip(safe_str(arts[1].meta.block_id))
              /\ \E k \in 1..Len(expanded) : expanded[k] = arts[1]
              /\ \A k \in 1..Len(expanded) :
                    strip(safe_str(expanded[k].meta.block_id)) = queries[3].flt

\* C29 witness: the index answered a weaker chunk of block b2 ahead of the
\* best one, of block b1; the decision is article and block b1 was expanded
\* into two chunks
C29_Witness ==
    /\ BlockExpanded
    /\ Len(world.art) = 2
    /\ world.art[1].metadata.block_id = "b2"
    /\ arts[1].meta.block_id = "b1"
    /\ arts[1].score > arts[2].score
    /\ queries[3].flt = "b1"
    /\ Len(expanded) = 2

\* every item of the list items is one of the list from
Among(items, from) ==
    \A k \in 1..Len(items) : \E j \in 1..Len(from) : items[k] = from[j]

\* C30: the context handed to the chat model is built only from the source
\* the decision selected: FAQ records only for source_kind faq, article
\* chunks only for source_kind article; when the decision is clarify the
\* context and the source line are empty, neither the judge nor the block
\* expansion is invoked, and the chat model is still called exactly once.
C30_ContextFromSelectedSource ==
    pc = "answered" =>
        /\ Len(CallsTo("llm")) = 1
        /\ decision.source_kind = "faq" =>
              /\ Among(selected, faqs)
              /\ context = build_faqs(cfg, selected)
        /\ decision.source_kind = "article" =>
              /\ \A k \in 1..Len(expanded) : expanded[k].source = "article"
              /\ context = build_articles(cfg, expanded)
        /\ decision.action = "clarify" =>
              /\ context = <<>>
              /\ CallsTo("llm")[1].source_line = <<>>
              /\ CallsTo("judge") = <<>>
              /\ CallsTo("expand_articles") = <<>>
              /\ \A i \in 1..Len(queries) : queries[i].flt = None

\* C30 witness: an article was retrieved below the minimum score; the
\* decision is clarify, and the chat model was called once with no context
\* and no source line
C30_Witness ==
    /\ pc = "answered"
    /\ decision.action = "clarify"
    /\ arts # <<>>
    /\ context = <<>>
    /\ calls = <<CallTo("retriever"), CallTo("llm")>>
    /\ answer = <<"r">>

====
